---- MODULE Spec2Model ----
(***************************************************************************)
(* Model of the template rendering engine of scripts/descargos_render_v2.py *)
(* (Descarguinator): the [[IF]]/[[ELIF]]/[[ELSE]]/[[/IF]] parser with an    *)
(* explicit stack, the tree evaluator, the condition evaluator, the        *)
(* {{placeholder}} substitution pass, the text cleanup and the strict      *)
(* check, as called by render_docx.                                        *)
(*                                                                         *)
(* A text is a sequence of one-character strings.  A Python value is a     *)
(* record [t, n, e, s, d]: t is the type, n the integer payload (a bool is *)
(* 0/1, a float is the mantissa), e the number of decimals of a float, s   *)
(* the characters of a str and d the entries of a dict in insertion order. *)
(***************************************************************************)
EXTENDS Integers, Sequences, FiniteSets, TLC

VARIABLES
    pc,        \* position of the call being modelled
    raw,       \* render_docx: raw (the template text) / the text given to a pure function
    ctx,       \* the context dict
    estricto,  \* the strict flag
    tags,      \* matches of _TAG_RE.finditer(text), in textual order
    ti,        \* number of matches already consumed by the for loop
    nodes,     \* heap of _Node objects: nodes[i] is the children list of node i
    ifs,       \* heap of _IfNode objects: ifs[i] is the clauses list of if node i
    stack,     \* _parse_to_ast: stack
    cur,       \* _parse_to_ast: cur (a _Node id)
    last_pos,  \* _parse_to_ast: last_pos (0-based offset as in the source)
    out,       \* render_text: out
    err,       \* the exception that left the call, "" when none
    doc,       \* the output document: <<>> while absent, else <<paragraphs>>
    other,     \* the frame of a second call that is suspended, NoFrame when there is none
    expr,      \* the expression given to _eval_condition (pure-function check)
    res        \* the value a pure function returned

vars == <<pc, raw, ctx, estricto, tags, ti, nodes, ifs, stack, cur, last_pos,
          out, err, doc, expr, res, other>>

\* no second call
NoFrame == << >>

-----------------------------------------------------------------------------
(* Characters *)

AsciiLower == <<"a","b","c","d","e","f","g","h","i","j","k","l","m",
                "n","o","p","q","r","s","t","u","v","w","x","y","z">>

AsciiUpper == <<"A","B","C","D","E","F","G","H","I","J","K","L","M",
                "N","O","P","Q","R","S","T","U","V","W","X","Y","Z">>

DigitChars == <<"0","1","2","3","4","5","6","7","8","9">>

Range(s) == {s[i] : i \in 1..Len(s)}

IndexIn(s, c) == CHOOSE i \in 1..Len(s) : s[i] = c

LowerSet == Range(AsciiLower)

UpperSet == Range(AsciiUpper)

DigitSet == Range(DigitChars)

IsLower(c) == c \in LowerSet

IsUpper(c) == c \in UpperSet

IsDigit(c) == c \in DigitSet

DigitVal(c) == IndexIn(DigitChars, c) - 1

\* \s of module re, and the characters str.strip() removes
IsSpace(c) == c \in {" ", "\t", "\n", "\r", "\f"}

\* the class [A-Za-z0-9_\.]
IsIdent(c) == IsLower(c) \/ IsUpper(c) \/ IsDigit(c) \/ c \in {"_", "."}

LowerChar(c) == IF IsUpper(c) THEN AsciiLower[IndexIn(AsciiUpper, c)] ELSE c

UpperChar(c) == IF IsLower(c) THEN AsciiUpper[IndexIn(AsciiLower, c)] ELSE c

-----------------------------------------------------------------------------
(* str methods *)

StrLower(s) == [i \in 1..Len(s) |-> LowerChar(s[i])]

StrUpper(s) == [i \in 1..Len(s) |-> UpperChar(s[i])]

\* str.title(): a cased character is upper-cased after an uncased one and
\* lower-cased after a cased one
StrTitle(s) ==
    [i \in 1..Len(s) |->
        IF i > 1 /\ (IsLower(s[i-1]) \/ IsUpper(s[i-1]))
        THEN LowerChar(s[i]) ELSE UpperChar(s[i])]

Slice(s, a, b) == IF a > b THEN << >> ELSE SubSeq(s, a, b)

\* s[i:] with a 0-based offset i
From(s, i) == Slice(s, i + 1, Len(s))

StartsWith(s, p) == Len(s) >= Len(p) /\ SubSeq(s, 1, Len(p)) = p

EndsWith(s, p) == Len(s) >= Len(p) /\ SubSeq(s, Len(s) - Len(p) + 1, Len(s)) = p

\* s has p at 1-based position i
HasAt(s, i, p) == i >= 1 /\ i + Len(p) - 1 <= Len(s) /\ SubSeq(s, i, i + Len(p) - 1) = p

\* the same, ignoring case (re.IGNORECASE on an ASCII keyword)
HasAtI(s, i, p) ==
    i >= 1 /\ i + Len(p) - 1 <= Len(s)
    /\ StrLower(SubSeq(s, i, i + Len(p) - 1)) = StrLower(p)

FirstNonSpace(s) ==
    IF \E i \in 1..Len(s) : ~IsSpace(s[i])
    THEN CHOOSE i \in 1..Len(s) : ~IsSpace(s[i]) /\ \A j \in 1..(i-1) : IsSpace(s[j])
    ELSE Len(s) + 1

LastNonSpace(s) ==
    IF \E i \in 1..Len(s) : ~IsSpace(s[i])
    THEN CHOOSE i \in 1..Len(s) : ~IsSpace(s[i]) /\ \A j \in (i+1)..Len(s) : IsSpace(s[j])
    ELSE 0

Strip(s) == Slice(s, FirstNonSpace(s), LastNonSpace(s))

Contains(s, c) == \E i \in 1..Len(s) : s[i] = c

RECURSIVE Split(_, _)
\* str.split(sep) for a one-character separator
Split(s, sep) ==
    IF ~Contains(s, sep) THEN <<s>>
    ELSE LET i == CHOOSE k \in 1..Len(s) : s[k] = sep /\ \A j \in 1..(k-1) : s[j] # sep
         IN  <<Slice(s, 1, i - 1)>> \o Split(Slice(s, i + 1, Len(s)), sep)

RECURSIVE Join(_)
\* "".join(parts)
Join(parts) == IF parts = << >> THEN << >> ELSE Head(parts) \o Join(Tail(parts))

-----------------------------------------------------------------------------
(* Python values *)

VNone == [t |-> "none", n |-> 0, e |-> 0, s |-> << >>, d |-> << >>]

VBool(b) == [t |-> "bool", n |-> IF b THEN 1 ELSE 0, e |-> 0, s |-> << >>, d |-> << >>]

VInt(i) == [t |-> "int", n |-> i, e |-> 0, s |-> << >>, d |-> << >>]

\* the float m / 10^k
VFloat(m, k) == [t |-> "float", n |-> m, e |-> k, s |-> << >>, d |-> << >>]

VStr(x) == [t |-> "str", n |-> 0, e |-> 0, s |-> x, d |-> << >>]

\* a dict: entries [k |-> key, v |-> value], keys distinct
VDict(entries) == [t |-> "dict", n |-> 0, e |-> 0, s |-> << >>, d |-> entries]

Entry(key, val) == [k |-> key, v |-> val]

HasKey(dv, key) == \E i \in 1..Len(dv.d) : dv.d[i].k = key

\* dict.get(key): None when the key is absent
DictGet(dv, key) ==
    IF HasKey(dv, key)
    THEN dv.d[CHOOSE i \in 1..Len(dv.d) : dv.d[i].k = key].v
    ELSE VNone

RECURSIVE WalkKeepLast(_, _)
\* Walk that returns the value reached so far when a segment cannot be resolved
WalkKeepLast(curv, parts) ==
    IF parts = << >> THEN curv
    ELSE IF curv.t = "dict" /\ HasKey(curv, Head(parts))
         THEN WalkKeepLast(DictGet(curv, Head(parts)), Tail(parts))
         ELSE curv

RECURSIVE Walk(_, _)
\* the for loop of _get_ctx_value over key.split(".")
Walk(curv, parts) ==
    IF parts = << >> THEN curv
    ELSE IF curv.t = "dict" /\ HasKey(curv, Head(parts))
         THEN Walk(DictGet(curv, Head(parts)), Tail(parts))
         ELSE VNone

_get_ctx_value(c, key) ==
    IF ~Contains(key, ".") THEN DictGet(c, key)
    ELSE Walk(c, Split(key, "."))

\* line 99: ctx.get raises AttributeError when ctx is not a dict; the walk of
\* a dotted key tests isinstance first and returns None instead
LookupRaises(c, key) == c.t # "dict" /\ ~Contains(key, ".")

TruthyStrs == { <<"t","r","u","e">>, <<"s","í">>, <<"s","i">>, <<"1">>, <<"y">>, <<"y","e","s">> }

FalsyStrs == { <<"f","a","l","s","e">>, <<"n","o">>, <<"0">>, << >>,
               <<"n","u","l","l">>, <<"n","o","n","e">> }

\* _truthy that compares the string without strip()
TruthyNoStrip(val) ==
    IF val.t = "bool" THEN val.n = 1
    ELSE IF val.t = "none" THEN FALSE
    ELSE IF val.t \in {"int", "float"} THEN val.n # 0
    ELSE IF val.t = "str"
         THEN LET v == StrLower(val.s)
              IN  IF v \in TruthyStrs THEN TRUE
                  ELSE IF v \in FalsyStrs THEN FALSE
                  ELSE TRUE
    ELSE TRUE

_truthy(val) ==
    IF val.t = "bool" THEN val.n = 1
    ELSE IF val.t = "none" THEN FALSE
    ELSE IF val.t \in {"int", "float"} THEN val.n # 0
    ELSE IF val.t = "str"
         THEN LET v == StrLower(Strip(val.s))
              IN  IF v \in TruthyStrs THEN TRUE
                  ELSE IF v \in FalsyStrs THEN FALSE
                  ELSE TRUE
    ELSE TRUE

\* Python's == on the values above: bool is a subclass of int, and int, bool
\* and float compare by numeric value; None, str and dict only equal their kind
IsNumber(v) == v.t \in {"bool", "int", "float"}

PyEq(a, b) ==
    IF IsNumber(a) /\ IsNumber(b) THEN a.n = b.n /\ a.e = b.e
    ELSE IF a.t # b.t THEN FALSE
    ELSE IF a.t = "none" THEN TRUE
    ELSE IF a.t = "str" THEN a.s = b.s
    ELSE a.d = b.d

-----------------------------------------------------------------------------
(* int(t) and float(t) *)

AllDigits(s) == \A i \in 1..Len(s) : IsDigit(s[i])

RECURSIVE DigitsVal(_)
DigitsVal(s) == IF s = << >> THEN 0 ELSE 10 * DigitsVal(Slice(s, 1, Len(s) - 1)) + DigitVal(s[Len(s)])

HasSign(s) == Len(s) >= 1 /\ s[1] \in {"+", "-"}

Unsigned(s) == IF HasSign(s) THEN Tail(s) ELSE s

Signed(s, m) == IF HasSign(s) /\ s[1] = "-" THEN 0 - m ELSE m

\* int(t) succeeds: an optional sign and one or more decimal digits (tokens
\* with the digit separator "_" are outside the inputs of the model)
IntOk(t) == Unsigned(t) # << >> /\ AllDigits(Unsigned(t))

IntOf(t) == Signed(t, DigitsVal(Unsigned(t)))

IntPart(u) == Head(Split(u, "."))

FracPart(u) == Split(u, ".")[2]

\* float(t) for a token with a decimal point: an optional sign, digits, one
\* point, digits, with a digit on at least one side (tokens with an exponent
\* or the digit separator "_" are outside the inputs of the model)
FloatOk(t) ==
    LET u == Unsigned(t)
    IN  /\ Len(Split(u, ".")) = 2
        /\ AllDigits(IntPart(u)) /\ AllDigits(FracPart(u))
        /\ Len(IntPart(u)) + Len(FracPart(u)) >= 1

RECURSIVE DropZeros(_)
DropZeros(s) == IF s # << >> /\ s[Len(s)] = "0" THEN DropZeros(Slice(s, 1, Len(s) - 1)) ELSE s

FloatOf(t) ==
    LET u == Unsigned(t)
        f == DropZeros(FracPart(u))
    IN  VFloat(Signed(t, DigitsVal(IntPart(u) \o f)), Len(f))

Quoted(t, q) == StartsWith(t, <<q>>) /\ EndsWith(t, <<q>>)

_parse_literal(token) ==
    LET t == Strip(token)
        tl == StrLower(t)
    IN  IF tl \in { <<"t","r","u","e">>, <<"f","a","l","s","e">> }
        THEN VBool(tl = <<"t","r","u","e">>)
        ELSE IF tl \in { <<"n","u","l","l">>, <<"n","o","n","e">> } THEN VNone
        ELSE IF Quoted(t, "'") \/ Quoted(t, "\"") THEN VStr(Slice(t, 2, Len(t) - 1))
        ELSE IF Contains(t, ".")
             THEN IF FloatOk(t) THEN FloatOf(t) ELSE VStr(t)
             ELSE IF IntOk(t) THEN VInt(IntOf(t)) ELSE VStr(t)

-----------------------------------------------------------------------------
(* _eval_condition *)

\* number of leading characters of s, from 1-based position i, that satisfy
\* the class: the greedy match of class*
RECURSIVE RunIdent(_, _)
RunIdent(s, i) == IF i <= Len(s) /\ IsIdent(s[i]) THEN 1 + RunIdent(s, i + 1) ELSE 0

RECURSIVE RunSpace(_, _)
RunSpace(s, i) == IF i <= Len(s) /\ IsSpace(s[i]) THEN 1 + RunSpace(s, i + 1) ELSE 0

\* re.match(r"^([A-Za-z0-9_\.]+)\s*OP\s*(.+)$", e) for the two-character
\* operator op: the 1-based position where group 2 starts, 0 when no match.
\* "." matches no newline, and e is already stripped.
OpMatch(e, op) ==
    LET k == RunIdent(e, 1)
        a == 1 + k + RunSpace(e, 1 + k)
        b == a + 2 + RunSpace(e, a + 2)
    IN  IF k >= 1 /\ HasAt(e, a, op) /\ b <= Len(e) /\ ~Contains(From(e, b - 1), "\n")
        THEN b ELSE 0

OpKey(e) == Slice(e, 1, RunIdent(e, 1))

\* the three forms that do not start with "!"
EvalPlain(e, c) ==
    IF OpMatch(e, <<"=","=">>) > 0
    THEN PyEq(_get_ctx_value(c, OpKey(e)), _parse_literal(From(e, OpMatch(e, <<"=","=">>) - 1)))
    ELSE IF OpMatch(e, <<"!","=">>) > 0
    THEN ~PyEq(_get_ctx_value(c, OpKey(e)), _parse_literal(From(e, OpMatch(e, <<"!","=">>) - 1)))
    ELSE _truthy(_get_ctx_value(c, e))

\* _eval_condition where "!" negates the condition that follows it
EvalConditionNegatesCondition(ex, c) ==
    LET e == Strip(ex)
    IN  IF StartsWith(e, <<"!">>) THEN ~EvalPlain(Strip(From(e, 1)), c) ELSE EvalPlain(e, c)

\* the key _eval_condition looks up (lines 158, 164, 171, 177)
CondKey(ex) ==
    LET e == Strip(ex)
    IN  IF StartsWith(e, <<"!">>) THEN Strip(From(e, 1))
        ELSE IF OpMatch(e, <<"=","=">>) > 0 \/ OpMatch(e, <<"!","=">>) > 0 THEN OpKey(e)
        ELSE e

\* the call _eval_condition(ex, c) raises
EvalRaises(ex, c) == LookupRaises(c, CondKey(ex))

\* the value _eval_condition(ex, c) returns when it does not raise
_eval_condition(ex, c) ==
    LET e == Strip(ex)
    IN  IF StartsWith(e, <<"!">>)
        THEN ~_truthy(_get_ctx_value(c, Strip(From(e, 1))))
        ELSE IF OpMatch(e, <<"=","=">>) > 0
        THEN PyEq(_get_ctx_value(c, OpKey(e)), _parse_literal(From(e, OpMatch(e, <<"=","=">>) - 1)))
        ELSE IF OpMatch(e, <<"!","=">>) > 0
        THEN ~PyEq(_get_ctx_value(c, OpKey(e)), _parse_literal(From(e, OpMatch(e, <<"!","=">>) - 1)))
        ELSE _truthy(_get_ctx_value(c, e))

-----------------------------------------------------------------------------
(* _TAG_RE and the AST *)

TagWords == << <<"I","F">>, <<"E","L","I","F">>, <<"E","L","S","E">>, <<"/","I","F">> >>

\* first 1-based position k >= i with "]]" at k, 0 when there is none
FindClose(s, i) ==
    IF \E k \in i..(Len(s) - 1) : s[k] = "]" /\ s[k+1] = "]"
    THEN CHOOSE k \in i..(Len(s) - 1) :
            /\ s[k] = "]" /\ s[k+1] = "]"
            /\ \A j \in i..(k-1) : ~(s[j] = "]" /\ s[j+1] = "]")
    ELSE 0

NoMatch == [ok |-> FALSE, start |-> 0, end |-> 0, tag |-> << >>, arg |-> << >>]

\* _TAG_RE tried at 1-based position p with the keyword w:
\* \[\[(w)(?:\s+(.*?))?\]\] with IGNORECASE and DOTALL.  start and end are the
\* 0-based m.start() and m.end(); tag is m.group(1).upper() and arg is
\* (m.group(2) or "").strip()
TagWordAt(s, p, w) ==
    LET q == p + 2 + Len(w)
        sp == RunSpace(s, q)
        c == FindClose(s, q + sp)
    IN  IF ~(HasAt(s, p, <<"[","[">>) /\ HasAtI(s, p + 2, w)) THEN NoMatch
        ELSE IF sp >= 1 /\ c > 0
        THEN [ok |-> TRUE, start |-> p - 1, end |-> c + 1, tag |-> StrUpper(w),
              arg |-> Strip(Slice(s, q + sp, c - 1))]
        ELSE IF HasAt(s, q, <<"]","]">>)
        THEN [ok |-> TRUE, start |-> p - 1, end |-> q + 1, tag |-> StrUpper(w), arg |-> << >>]
        ELSE NoMatch

_TAG_RE(s, p) ==
    IF \E i \in 1..Len(TagWords) : TagWordAt(s, p, TagWords[i]).ok
    THEN TagWordAt(s, p, TagWords[CHOOSE i \in 1..Len(TagWords) :
                                    /\ TagWordAt(s, p, TagWords[i]).ok
                                    /\ \A j \in 1..(i-1) : ~TagWordAt(s, p, TagWords[j]).ok])
    ELSE NoMatch

RECURSIVE FindIterFrom(_, _)
\* the matches of _TAG_RE.finditer(s) that start at 1-based position p or later
FindIterFrom(s, p) ==
    IF p > Len(s) THEN << >>
    ELSE LET m == _TAG_RE(s, p)
         IN  IF m.ok THEN <<m>> \o FindIterFrom(s, m.end + 1)
             ELSE FindIterFrom(s, p + 1)

FindIter(s) == FindIterFrom(s, 1)

\* a child of a _Node: a str (ref = 0) or the _IfNode with id ref
StrChild(x) == [str |-> x, ref |-> 0]

IfChild(id) == [str |-> << >>, ref |-> id]

\* a clause (cond, node): none is TRUE for the None of an ELSE
Clause(cond, id) == [none |-> FALSE, cond |-> cond, node |-> id]

ElseClause(id) == [none |-> TRUE, cond |-> << >>, node |-> id]

\* stack entries: a _Node or an _IfNode
NodeRef(id) == [isIf |-> FALSE, id |-> id]

IfRef(id) == [isIf |-> TRUE, id |-> id]

Top(st) == st[Len(st)]

Pop(st) == SubSeq(st, 1, Len(st) - 1)

\* CloseIf without the second pop
CloseIfOnePop(st) == Pop(st)

\* lines 240-241: stack.pop() twice, the if node and its parent
CloseIf(st) == Pop(Pop(st))

\* AppendText that strips the piece of text it appends
AppendTextStripped(ns, id, s, a, b) ==
    IF b > a THEN [ns EXCEPT ![id] = Append(@, StrChild(Strip(SubSeq(s, a + 1, b))))] ELSE ns

\* cur.children.append(text[a:b]) when b > a (0-based offsets)
AppendText(ns, id, s, a, b) ==
    IF b > a THEN [ns EXCEPT ![id] = Append(@, StrChild(SubSeq(s, a + 1, b)))] ELSE ns

\* the guard of lines 223, 230 and 238
NoOpenIf(st) == Len(st) < 2 \/ ~Top(st).isIf

-----------------------------------------------------------------------------
(* _eval_ast *)

RECURSIVE ChosenBreakAtElse(_, _, _, _)
\* ChosenFrom with a break added after line 268: the first ELSE ends the loop
ChosenBreakAtElse(clauses, i, chosen, c) ==
    IF i > Len(clauses) THEN chosen
    ELSE IF clauses[i].none THEN i
    ELSE IF _eval_condition(clauses[i].cond, c) THEN i
    ELSE ChosenBreakAtElse(clauses, i + 1, chosen, c)

RECURSIVE ChosenFirstElse(_, _, _, _)
\* ChosenFrom with line 268 guarded by "chosen is None": the first ELSE is kept
ChosenFirstElse(clauses, i, chosen, c) ==
    IF i > Len(clauses) THEN chosen
    ELSE IF clauses[i].none
         THEN ChosenFirstElse(clauses, i + 1, IF chosen = 0 THEN i ELSE chosen, c)
    ELSE IF _eval_condition(clauses[i].cond, c) THEN i
    ELSE ChosenFirstElse(clauses, i + 1, chosen, c)

RECURSIVE ChosenNoBreak(_, _, _, _)
\* ChosenFrom without the break of line 274: a later match replaces an earlier one
ChosenNoBreak(clauses, i, chosen, c) ==
    IF i > Len(clauses) THEN chosen
    ELSE IF clauses[i].none THEN ChosenNoBreak(clauses, i + 1, i, c)
    ELSE IF _eval_condition(clauses[i].cond, c) THEN ChosenNoBreak(clauses, i + 1, i, c)
    ELSE ChosenNoBreak(clauses, i + 1, chosen, c)

RECURSIVE ChosenBreakOnRaise(_, _, _, _)
\* ChosenFrom with break instead of continue at line 277
ChosenBreakOnRaise(clauses, i, chosen, c) ==
    IF i > Len(clauses) THEN chosen
    ELSE IF clauses[i].none THEN ChosenBreakOnRaise(clauses, i + 1, i, c)
    ELSE IF EvalRaises(clauses[i].cond, c) THEN chosen
    ELSE IF _eval_condition(clauses[i].cond, c) THEN i
    ELSE ChosenBreakOnRaise(clauses, i + 1, chosen, c)

RECURSIVE ChosenFrom(_, _, _, _)
\* the for loop over child.clauses from clause i on, chosen being the value
\* of the local variable so far (0 is None): an ELSE sets chosen and goes on,
\* a condition whose evaluation raises is passed over (lines 275-277), a true
\* condition sets chosen and breaks
ChosenFrom(clauses, i, chosen, c) ==
    IF i > Len(clauses) THEN chosen
    ELSE IF clauses[i].none THEN ChosenFrom(clauses, i + 1, i, c)
    ELSE IF EvalRaises(clauses[i].cond, c) THEN ChosenFrom(clauses, i + 1, chosen, c)
    ELSE IF _eval_condition(clauses[i].cond, c) THEN i
    ELSE ChosenFrom(clauses, i + 1, chosen, c)

Chosen(clauses, c) == ChosenFrom(clauses, 1, 0, c)

RECURSIVE EvalAstEveryMatch(_, _, _, _)
\* _eval_ast that appends the body of every clause that matches instead of
\* the body of the chosen one
EvalAstEveryMatch(ns, fs, id, c) ==
    Join([k \in 1..Len(ns[id]) |->
            IF ns[id][k].ref = 0 THEN ns[id][k].str
            ELSE LET cl == fs[ns[id][k].ref]
                 IN  Join([i \in 1..Len(cl) |->
                            IF cl[i].none \/ _eval_condition(cl[i].cond, c)
                            THEN EvalAstEveryMatch(ns, fs, cl[i].node, c)
                            ELSE << >>])])

RECURSIVE _eval_ast(_, _, _, _)
\* _eval_ast of the _Node id in the heap (ns, fs)
_eval_ast(ns, fs, id, c) ==
    Join([k \in 1..Len(ns[id]) |->
            IF ns[id][k].ref = 0 THEN ns[id][k].str
            ELSE LET cl == fs[ns[id][k].ref]
                 IN  IF Chosen(cl, c) # 0
                     THEN _eval_ast(ns, fs, cl[Chosen(cl, c)].node, c)
                     ELSE << >>])

-----------------------------------------------------------------------------
(* str(val) *)

RECURSIVE NatStr(_)
NatStr(n) == IF n < 10 THEN <<DigitChars[n + 1]>> ELSE NatStr(n \div 10) \o <<DigitChars[(n % 10) + 1]>>

IntStr(n) == IF n < 0 THEN <<"-">> \o NatStr(0 - n) ELSE NatStr(n)

RECURSIVE Pow10(_)
Pow10(k) == IF k = 0 THEN 1 ELSE 10 * Pow10(k - 1)

RECURSIVE PadZeros(_, _)
PadZeros(s, k) == IF Len(s) >= k THEN s ELSE PadZeros(<<"0">> \o s, k)

\* repr of the float m / 10^k (positional notation)
FloatStr(m, k) ==
    LET a == IF m < 0 THEN 0 - m ELSE m
    IN  (IF m < 0 THEN <<"-">> ELSE << >>)
        \o NatStr(a \div Pow10(k)) \o <<".">>
        \o (IF k = 0 THEN <<"0">> ELSE PadZeros(NatStr(a % Pow10(k)), k))

RECURSIVE PyRepr(_)
\* repr(val), which str() of a dict applies to its keys and values
PyRepr(val) ==
    IF val.t = "none" THEN <<"N","o","n","e">>
    ELSE IF val.t = "bool" THEN (IF val.n = 1 THEN <<"T","r","u","e">> ELSE <<"F","a","l","s","e">>)
    ELSE IF val.t = "int" THEN IntStr(val.n)
    ELSE IF val.t = "float" THEN FloatStr(val.n, val.e)
    ELSE IF val.t = "str" THEN <<"'">> \o val.s \o <<"'">>
    ELSE <<"{">>
         \o Join([i \in 1..Len(val.d) |->
                    (IF i > 1 THEN <<",", " ">> ELSE << >>)
                    \o <<"'">> \o val.d[i].k \o <<"'", ":", " ">> \o PyRepr(val.d[i].v)])
         \o <<"}">>

PyStr(val) == IF val.t = "str" THEN val.s ELSE PyRepr(val)

-----------------------------------------------------------------------------
(* render_variables *)

FilterWords == << <<"u","p","p","e","r">>, <<"l","o","w","e","r">>, <<"t","i","t","l","e">> >>

\* the alternative (upper|lower|title) at 1-based position f: the word, << >> when none
FilterAt(s, f) ==
    IF \E i \in 1..Len(FilterWords) : HasAt(s, f, FilterWords[i])
    THEN FilterWords[CHOOSE i \in 1..Len(FilterWords) : HasAt(s, f, FilterWords[i])]
    ELSE << >>

\* _VAR_RE tried at 1-based position p:
\* \{\{\s*([A-Za-z0-9_\.]+)\s*(?:\|\s*(upper|lower|title))?\s*\}\}
\* end is the 1-based position after the match, key is group 1, filt is
\* group 2 (<< >> for None)
_VAR_RE(s, p) ==
    LET a == p + 2 + RunSpace(s, p + 2)
        k == RunIdent(s, a)
        b == a + k + RunSpace(s, a + k)
        f == b + 1 + RunSpace(s, b + 1)
        w == FilterAt(s, f)
        g == f + Len(w) + RunSpace(s, f + Len(w))
        none == [ok |-> FALSE, end |-> 0, key |-> << >>, filt |-> << >>]
    IN  IF ~(HasAt(s, p, <<"{","{">>) /\ k >= 1) THEN none
        ELSE IF HasAt(s, b, <<"|">>) /\ w # << >> /\ HasAt(s, g, <<"}","}">>)
        THEN [ok |-> TRUE, end |-> g + 2, key |-> SubSeq(s, a, a + k - 1), filt |-> w]
        ELSE IF HasAt(s, b, <<"}","}">>)
        THEN [ok |-> TRUE, end |-> b + 2, key |-> SubSeq(s, a, a + k - 1), filt |-> << >>]
        ELSE none

\* _apply_filter where upper capitalizes as title does
ApplyFilterUpperAsTitle(val, filt) ==
    IF val.t = "none" THEN << >>
    ELSE IF filt = << >> THEN PyStr(val)
    ELSE IF filt = <<"u","p","p","e","r">> THEN StrTitle(PyStr(val))
    ELSE IF filt = <<"l","o","w","e","r">> THEN StrLower(PyStr(val))
    ELSE IF filt = <<"t","i","t","l","e">> THEN StrTitle(PyStr(val))
    ELSE PyStr(val)

_apply_filter(val, filt) ==
    IF val.t = "none" THEN << >>
    ELSE IF filt = << >> THEN PyStr(val)
    ELSE IF filt = <<"u","p","p","e","r">> THEN StrUpper(PyStr(val))
    ELSE IF filt = <<"l","o","w","e","r">> THEN StrLower(PyStr(val))
    ELSE IF filt = <<"t","i","t","l","e">> THEN StrTitle(PyStr(val))
    ELSE PyStr(val)

\* repl(m)
Repl(m, c) == _apply_filter(_get_ctx_value(c, m.key), m.filt)

RECURSIVE SubFrom(_, _, _)
\* _VAR_RE.sub(repl, s) from 1-based position p on
SubFrom(s, p, c) ==
    IF p > Len(s) THEN << >>
    ELSE LET m == _VAR_RE(s, p)
         IN  IF m.ok THEN Repl(m, c) \o SubFrom(s, m.end, c)
             ELSE <<s[p]>> \o SubFrom(s, p + 1, c)

\* render_variables that substitutes again in its own result
RenderVariablesTwice(s, c) == SubFrom(SubFrom(s, 1, c), 1, c)

\* line 322
render_variables(s, c) == SubFrom(s, 1, c)

RECURSIVE SubRaisesFrom(_, _, _)
\* the call repl(m) of some match from position p on raises
SubRaisesFrom(s, p, c) ==
    IF p > Len(s) THEN FALSE
    ELSE LET m == _VAR_RE(s, p)
         IN  IF m.ok THEN LookupRaises(c, m.key) \/ SubRaisesFrom(s, m.end, c)
             ELSE SubRaisesFrom(s, p + 1, c)

\* the exception of line 99 when ctx is None
ErrNoGet == "'NoneType' object has no attribute 'get'"

-----------------------------------------------------------------------------
(* _clean_text *)

IsBlank(ch) == ch \in {" ", "\t"}

RECURSIVE RunBlank(_, _)
RunBlank(s, i) == IF i <= Len(s) /\ IsBlank(s[i]) THEN 1 + RunBlank(s, i + 1) ELSE 0

RECURSIVE RunNl(_, _)
RunNl(s, i) == IF i <= Len(s) /\ s[i] = "\n" THEN 1 + RunNl(s, i + 1) ELSE 0

\* the character at i lies in a match of [ \t]+$ (MULTILINE): the blanks
\* from i on reach a newline or the end of the text
Trailing(s, i) ==
    IsBlank(s[i]) /\ (i + RunBlank(s, i) > Len(s) \/ s[i + RunBlank(s, i)] = "\n")

RECURSIVE StripLines(_, _)
\* re.sub(r"[ \t]+$", "", s, flags=re.MULTILINE) from position p on
StripLines(s, p) ==
    IF p > Len(s) THEN << >>
    ELSE IF Trailing(s, p) THEN StripLines(s, p + 1)
    ELSE <<s[p]>> \o StripLines(s, p + 1)

RECURSIVE Collapse(_, _)
\* re.sub(r"\n{3,}", "\n\n", s) from position p on
Collapse(s, p) ==
    IF p > Len(s) THEN << >>
    ELSE IF RunNl(s, p) >= 3 THEN <<"\n", "\n">> \o Collapse(s, p + RunNl(s, p))
    ELSE <<s[p]>> \o Collapse(s, p + 1)

\* _clean_text with its two substitutions in the other order
CleanTextCollapseFirst(s) == StripLines(Collapse(s, 1), 1)

\* lines 330 and 332
_clean_text(s) == Collapse(StripLines(s, 1), 1)

-----------------------------------------------------------------------------
(* the strict check *)

\* _RE_VAR_LEFT tried at 1-based position p:
\* \{\{\s*[A-Za-z0-9_\.]+(?:\s*\|\s*(?:upper|lower|title))?\s*\}\}
VarLeftAt(s, p) ==
    LET a == p + 2 + RunSpace(s, p + 2)
        k == RunIdent(s, a)
        b == a + k + RunSpace(s, a + k)
        f == b + 1 + RunSpace(s, b + 1)
        w == FilterAt(s, f)
        g == f + Len(w) + RunSpace(s, f + Len(w))
    IN  /\ HasAt(s, p, <<"{","{">>)
        /\ k >= 1
        /\ \/ HasAt(s, b, <<"|">>) /\ w # << >> /\ HasAt(s, g, <<"}","}">>)
           \/ HasAt(s, b, <<"}","}">>)

\* _RE_VAR_LEFT without the filter group: \{\{\s*[A-Za-z0-9_\.]+\s*\}\}
VarLeftNoFilter(s) ==
    \E p \in 1..Len(s) :
        LET a == p + 2 + RunSpace(s, p + 2)
            k == RunIdent(s, a)
        IN  HasAt(s, p, <<"{","{">>) /\ k >= 1 /\ HasAt(s, a + k + RunSpace(s, a + k), <<"}","}">>)

_RE_VAR_LEFT(s) == \E p \in 1..Len(s) : VarLeftAt(s, p)

RECURSIVE RunNotClose(_, _)
RunNotClose(s, i) == IF i <= Len(s) /\ s[i] # "]" THEN 1 + RunNotClose(s, i + 1) ELSE 0

\* _RE_TAG_LEFT tried at 1-based position p:
\* \[\[(?:IF|ELIF|ELSE|/IF)[^\]]*\]\] with IGNORECASE
TagLeftAt(s, p) ==
    /\ HasAt(s, p, <<"[","[">>)
    /\ \E i \in 1..Len(TagWords) :
          LET q == p + 2 + Len(TagWords[i])
          IN  /\ HasAtI(s, p + 2, TagWords[i])
              /\ HasAt(s, q + RunNotClose(s, q), <<"]","]">>)

\* _RE_TAG_LEFT with the pattern of the parser
TagLeftAsParser(s) == FindIter(s) # << >>

_RE_TAG_LEFT(s) == \E p \in 1..Len(s) : TagLeftAt(s, p)

ErrVars == "Quedaron marcadores sin resolver: placeholders {{...}}"

ErrTags == "Quedaron marcadores sin resolver: etiquetas [[IF/ELIF/ELSE/IF]]"

ErrBoth == "Quedaron marcadores sin resolver: placeholders {{...}}, etiquetas [[IF/ELIF/ELSE/IF]]"

\* StrictError that looks for residue whatever the flag is
StrictErrorAlways(s, strict) ==
    IF _RE_VAR_LEFT(s) /\ _RE_TAG_LEFT(s) THEN ErrBoth
    ELSE IF _RE_VAR_LEFT(s) THEN ErrVars
    ELSE IF _RE_TAG_LEFT(s) THEN ErrTags
    ELSE ""

\* StrictError where the second search is an elif of the first
StrictErrorFirstOnly(s, strict) ==
    IF ~strict THEN ""
    ELSE IF _RE_VAR_LEFT(s) THEN ErrVars
    ELSE IF _RE_TAG_LEFT(s) THEN ErrTags
    ELSE ""

\* lines 350-357 of render_text: the message of the ValueError, "" when none is raised
StrictError(s, strict) ==
    IF ~strict THEN ""
    ELSE IF _RE_VAR_LEFT(s) /\ _RE_TAG_LEFT(s) THEN ErrBoth
    ELSE IF _RE_VAR_LEFT(s) THEN ErrVars
    ELSE IF _RE_TAG_LEFT(s) THEN ErrTags
    ELSE ""

-----------------------------------------------------------------------------
(* Inputs of the render *)

\* longest tag sequence of a generated template
MaxTags == 4

TagKinds == {"IF", "ELIF", "ELSE", "/IF"}

Shapes == UNION {[1..n -> TagKinds] : n \in 0..MaxTags}

\* the i-th tag of a generated template tests x, y, z in turn
CondVars == <<"x", "y", "z">>

CondVar(i) == <<CondVars[((i - 1) % Len(CondVars)) + 1]>>

TagText(kind, i) ==
    IF kind = "IF" THEN <<"[","[","I","F"," ">> \o CondVar(i) \o <<"]","]">>
    ELSE IF kind = "ELIF" THEN <<"[","[","E","L","I","F"," ">> \o CondVar(i) \o <<"]","]">>
    ELSE IF kind = "ELSE" THEN <<"[","[","E","L","S","E","]","]">>
    ELSE <<"[","[","/","I","F","]","]">>

\* the text "a", then each tag followed by the next letter, so that every
\* text fragment of the template is a different letter
ShapeTemplate(sh) ==
    <<"a">> \o Join([i \in 1..Len(sh) |-> TagText(sh[i], i) \o <<AsciiLower[i + 1]>>])

Name == <<"n","a","m","e">>

Ph(key) == <<"{","{">> \o key \o <<"}","}">>

SpecialTemplates ==
    { \* [[IF x]]YES[[ELSE]]NO[[/IF]] - {{name|upper}}
      <<"[","[","I","F"," ","x","]","]","Y","E","S","[","[","E","L","S","E","]","]","N","O",
        "[","[","/","I","F","]","]"," ","-"," ","{","{">> \o Name \o <<"|","u","p","p","e","r","}","}">>,
      \* [[IFX]]
      <<"[","[","I","F","X","]","]">>,
      \* {{ name | foo }}
      <<"{","{"," ">> \o Name \o <<" ","|"," ","f","o","o"," ","}","}">>,
      \* {{v}} and {{missing}}
      Ph(<<"v">>) \o Ph(<<"m","i","s","s","i","n","g">>),
      \* {{v}}[[ELSEWHERE]]
      Ph(<<"v">>) \o <<"[","[","E","L","S","E","W","H","E","R","E","]","]">>,
      \* blanks and blank lines
      <<"p"," ","\t","\n","\n","\n","\n","q"," ">>,
      \* {{name|title}} \n\n\n\n{{x}}\t
      <<"{","{">> \o Name \o <<"|","t","i","t","l","e","}","}"," ","\n","\n","\n","\n">>
        \o Ph(<<"x">>) \o <<"\t">>,
      \* k{{t}}q and {{u}}q
      <<"k">> \o Ph(<<"t">>) \o <<"q">>,
      Ph(<<"u">>) \o <<"q">>,
      \* [[if x]][[IF	!y]]u[[/if]][[Else]]{{ name|title }}
      <<"[","[","i","f"," ","x","]","]","[","[","I","F","\t","!","y","]","]","u",
        "[","[","/","i","f","]","]","[","[","E","l","s","e","]","]","{","{"," ">> \o Name
        \o <<"|","t","i","t","l","e"," ","}","}">> }

\* most ELIF tags of a generated IF, ELIF.., ELSE, /IF template
MaxElifs == 2

Ladder(n) ==
    [i \in 1..(n + 3) |->
        IF i = 1 THEN "IF" ELSE IF i <= n + 1 THEN "ELIF" ELSE IF i = n + 2 THEN "ELSE" ELSE "/IF"]

Ladders == {Ladder(n) : n \in 0..MaxElifs}

ShapeTemplates == {ShapeTemplate(sh) : sh \in Shapes \cup Ladders}

Templates == ShapeTemplates \cup SpecialTemplates

\* the contexts: x, y and z are JSON booleans, name is a string, v is a
\* string that holds placeholder syntax, t one that holds the tag [[IF y]]
\* and u one that holds [[IF a]b]]
RenderCtx(bx, by, bz) ==
    VDict(<< Entry(<<"x">>, VBool(bx)), Entry(<<"y">>, VBool(by)), Entry(<<"z">>, VBool(bz)),
             Entry(Name, VStr(<<"a","n","a">>)), Entry(<<"v">>, VStr(Ph(<<"y">>))),
             Entry(<<"t">>, VStr(<<"[","[","I","F"," ","y","]","]">>)),
             Entry(<<"u">>, VStr(<<"[","[","I","F"," ","a","]","b","]","]">>)) >>)

Ctxs == {RenderCtx(bx, by, bz) : bx \in BOOLEAN, by \in BOOLEAN, bz \in BOOLEAN}

-----------------------------------------------------------------------------
(* render_docx, step by step *)

\* the order of the calls in render_docx and render_text
Pipeline == <<"render_docx", "_parse_to_ast", "_eval_ast", "render_variables",
              "_clean_text", "strict", "text_to_doc", "done">>

\* NextPc with the document written before the strict check
NextPcWriteFirst(p) ==
    IF p = "_clean_text" THEN "text_to_doc"
    ELSE IF p = "text_to_doc" THEN "strict"
    ELSE IF p = "strict" THEN "done"
    ELSE Pipeline[IndexIn(Pipeline, p) + 1]

\* NextPc with the variables substituted before the conditionals are resolved
NextPcSubstituteFirst(p) ==
    IF p = "_parse_to_ast" THEN "render_variables"
    ELSE IF p = "render_variables" THEN "_eval_ast"
    ELSE IF p = "_eval_ast" THEN "_clean_text"
    ELSE Pipeline[IndexIn(Pipeline, p) + 1]

NextPc(p) == Pipeline[IndexIn(Pipeline, p) + 1]

Root == 1

Init ==
    /\ pc = "render_docx"
    /\ raw \in Templates
    /\ ctx \in Ctxs
    /\ estricto \in BOOLEAN
    /\ tags = << >> /\ ti = 0
    /\ nodes = << >> /\ ifs = << >>
    /\ stack = << >> /\ cur = 0 /\ last_pos = 0
    /\ out = << >> /\ err = "" /\ doc = << >>
    /\ expr = << >> /\ res = VNone
    /\ other = NoFrame

\* ParseStart that keeps the tree of the previous call when there is one
ParseStartKeepTree ==
    /\ pc = "render_docx"
    /\ pc' = NextPc(pc)
    /\ nodes' = IF nodes = << >> THEN << << >> >> ELSE nodes
    /\ ifs' = ifs
    /\ stack' = <<NodeRef(Root)>>
    /\ cur' = Root
    /\ last_pos' = 0
    /\ tags' = FindIter(raw)
    /\ ti' = 0
    /\ UNCHANGED <<raw, ctx, estricto, out, err, doc, expr, res, other>>

\* _parse_to_ast, lines 198-203: root, stack, cur, last_pos and the iterator
ParseStart ==
    /\ pc = "render_docx"
    /\ pc' = NextPc(pc)
    /\ nodes' = << << >> >>
    /\ ifs' = << >>
    /\ stack' = <<NodeRef(Root)>>
    /\ cur' = Root
    /\ last_pos' = 0
    /\ tags' = FindIter(raw)
    /\ ti' = 0
    /\ UNCHANGED <<raw, ctx, estricto, out, err, doc, expr, res, other>>

\* the match the for loop is at
M == tags[ti + 1]

InLoop(tag) == pc = "_parse_to_ast" /\ ti < Len(tags) /\ M.tag = tag

\* nodes after lines 205-206
WithText == AppendText(nodes, cur, raw, last_pos, M.start)

Raise(msg) ==
    /\ pc' = "failed"
    /\ err' = msg
    /\ nodes' = WithText
    /\ UNCHANGED <<ifs, stack, cur, last_pos, ti>>

TagIF ==
    /\ InLoop(<<"I","F">>)
    /\ LET if_node == Len(ifs) + 1
           clause_node == Len(nodes) + 1
       IN  /\ ifs' = Append(ifs, <<Clause(M.arg, clause_node)>>)
           /\ nodes' = Append([WithText EXCEPT ![cur] = Append(@, IfChild(if_node))], << >>)
           /\ stack' = stack \o <<NodeRef(cur), IfRef(if_node)>>
           /\ cur' = clause_node
    /\ last_pos' = M.end
    /\ ti' = ti + 1
    /\ UNCHANGED <<pc, raw, ctx, estricto, tags, out, err, doc, expr, res, other>>

TagELIF ==
    /\ InLoop(<<"E","L","I","F">>)
    /\ \/ /\ NoOpenIf(stack)
          /\ Raise("Etiqueta [[ELIF]] sin [[IF]] correspondiente")
       \/ /\ ~NoOpenIf(stack)
          /\ ifs' = [ifs EXCEPT ![Top(stack).id] = Append(@, Clause(M.arg, Len(nodes) + 1))]
          /\ nodes' = Append(WithText, << >>)
          /\ cur' = Len(nodes) + 1
          /\ last_pos' = M.end
          /\ ti' = ti + 1
          /\ UNCHANGED <<pc, err, stack>>
    /\ UNCHANGED <<raw, ctx, estricto, tags, out, doc, expr, res, other>>

TagELSE ==
    /\ InLoop(<<"E","L","S","E">>)
    /\ \/ /\ NoOpenIf(stack)
          /\ Raise("Etiqueta [[ELSE]] sin [[IF]] correspondiente")
       \/ /\ ~NoOpenIf(stack)
          /\ ifs' = [ifs EXCEPT ![Top(stack).id] = Append(@, ElseClause(Len(nodes) + 1))]
          /\ nodes' = Append(WithText, << >>)
          /\ cur' = Len(nodes) + 1
          /\ last_pos' = M.end
          /\ ti' = ti + 1
          /\ UNCHANGED <<pc, err, stack>>
    /\ UNCHANGED <<raw, ctx, estricto, tags, out, doc, expr, res, other>>

\* TagEndIF that goes back to the root instead of the enclosing node
TagEndIFToRoot ==
    /\ InLoop(<<"/","I","F">>)
    /\ \/ /\ NoOpenIf(stack)
          /\ Raise("Etiqueta [[/IF]] sin [[IF]] correspondiente")
       \/ /\ ~NoOpenIf(stack)
          /\ nodes' = WithText
          /\ stack' = CloseIf(stack)
          /\ cur' = Root
          /\ last_pos' = M.end
          /\ ti' = ti + 1
          /\ UNCHANGED <<pc, err, ifs>>
    /\ UNCHANGED <<raw, ctx, estricto, tags, out, doc, expr, res, other>>

\* lines 236-242: close the conditional and go back to the enclosing node
TagEndIF ==
    /\ InLoop(<<"/","I","F">>)
    /\ \/ /\ NoOpenIf(stack)
          /\ Raise("Etiqueta [[/IF]] sin [[IF]] correspondiente")
       \/ /\ ~NoOpenIf(stack)
          /\ nodes' = WithText
          /\ stack' = CloseIf(stack)
          /\ cur' = Top(Pop(stack)).id
          /\ last_pos' = M.end
          /\ ti' = ti + 1
          /\ UNCHANGED <<pc, err, ifs>>
    /\ UNCHANGED <<raw, ctx, estricto, tags, out, doc, expr, res, other>>

\* ParseRest that drops the rest of the text when an IF is still open
ParseRestDropOpen ==
    /\ pc = "_parse_to_ast" /\ ti = Len(tags)
    /\ nodes' = IF Len(stack) > 1 THEN nodes ELSE AppendText(nodes, cur, raw, last_pos, Len(raw))
    /\ pc' = NextPc(pc)
    /\ UNCHANGED <<raw, ctx, estricto, tags, ti, ifs, stack, cur, last_pos, out, err, doc, expr, res, other>>

\* lines 249-255: the rest of the text, and the return; open ifs stay as they are
ParseRest ==
    /\ pc = "_parse_to_ast" /\ ti = Len(tags)
    /\ nodes' = AppendText(nodes, cur, raw, last_pos, Len(raw))
    /\ pc' = NextPc(pc)
    /\ UNCHANGED <<raw, ctx, estricto, tags, ti, ifs, stack, cur, last_pos, out, err, doc, expr, res, other>>

\* render_conditionals, line 292
EvalAst ==
    /\ pc = "_eval_ast"
    /\ out' = _eval_ast(nodes, ifs, Root, ctx)
    /\ pc' = NextPc(pc)
    /\ UNCHANGED <<raw, ctx, estricto, tags, ti, nodes, ifs, stack, cur, last_pos, err, doc, expr, res, other>>

\* render_text, line 347; the exception of a lookup is not caught
RenderVariables ==
    /\ pc = "render_variables"
    /\ \/ /\ SubRaisesFrom(out, 1, ctx)
          /\ pc' = "failed"
          /\ err' = ErrNoGet
          /\ UNCHANGED out
       \/ /\ ~SubRaisesFrom(out, 1, ctx)
          /\ out' = render_variables(out, ctx)
          /\ pc' = NextPc(pc)
          /\ UNCHANGED err
    /\ UNCHANGED <<raw, ctx, estricto, tags, ti, nodes, ifs, stack, cur, last_pos, doc, expr, res, other>>

\* CleanText that normalizes in strict mode only
CleanTextStrictOnly ==
    /\ pc = "_clean_text"
    /\ out' = IF estricto THEN _clean_text(out) ELSE out
    /\ pc' = NextPc(pc)
    /\ UNCHANGED <<raw, ctx, estricto, tags, ti, nodes, ifs, stack, cur, last_pos, err, doc, expr, res, other>>

\* render_text, line 348
CleanText ==
    /\ pc = "_clean_text"
    /\ out' = _clean_text(out)
    /\ pc' = NextPc(pc)
    /\ UNCHANGED <<raw, ctx, estricto, tags, ti, nodes, ifs, stack, cur, last_pos, err, doc, expr, res, other>>

\* render_text, lines 350-358: raise on residue in strict mode, else return out
StrictCheck ==
    /\ pc = "strict"
    /\ \/ /\ StrictError(out, estricto) # ""
          /\ err' = StrictError(out, estricto)
          /\ pc' = "failed"
       \/ /\ StrictError(out, estricto) = ""
          /\ pc' = NextPc(pc)
          /\ UNCHANGED err
    /\ UNCHANGED <<raw, ctx, estricto, tags, ti, nodes, ifs, stack, cur, last_pos, out, doc, expr, res, other>>

\* text_to_doc: one paragraph per line of the text, saved at out_path
TextToDoc ==
    /\ pc = "text_to_doc"
    /\ doc' = Split(out, "\n")
    /\ pc' = NextPc(pc)
    /\ UNCHANGED <<raw, ctx, estricto, tags, ti, nodes, ifs, stack, cur, last_pos, out, err, expr, res, other>>

Next ==
    \/ ParseStart
    \/ TagIF
    \/ TagELIF
    \/ TagELSE
    \/ TagEndIF
    \/ ParseRest
    \/ EvalAst
    \/ RenderVariables
    \/ CleanText
    \/ StrictCheck
    \/ TextToDoc

Spec == Init /\ [][Next]_vars

-----------------------------------------------------------------------------
(* Properties of the tree evaluator, stated on the generated templates,     *)
(* whose text fragments are pairwise different letters: the body of a      *)
(* clause was emitted exactly when its first letter occurs in the output.  *)

\* out holds the value _eval_ast returned for a generated template
Evaluated == pc = "render_variables" /\ raw \in ShapeTemplates

IfIds == 1..Len(ifs)

Clauses(f) == 1..Len(ifs[f])

\* the letter that follows the tag of clause i of conditional f
Marker(f, i) == nodes[ifs[f][i].node][1].str[1]

Emitted(f, i) == Contains(out, Marker(f, i))

\* the conditionals that are children of the root
TopIfs == {nodes[Root][k].ref : k \in 1..Len(nodes[Root])} \ {0}

CondTrue(f, i) == ~ifs[f][i].none /\ _eval_condition(ifs[f][i].cond, ctx)

Least(S) == IF S = {} THEN 0 ELSE CHOOSE i \in S : \A j \in S : i <= j

Greatest(S) == IF S = {} THEN 0 ELSE CHOOSE i \in S : \A j \in S : i >= j

\* first clause whose condition is true or absent
FirstMatch(f) == Least({i \in Clauses(f) : ifs[f][i].none \/ CondTrue(f, i)})

\* first clause whose condition is true
FirstTrue(f) == Least({i \in Clauses(f) : CondTrue(f, i)})

Elses(f) == {i \in Clauses(f) : ifs[f][i].none}

\* first true condition, else the last ELSE, else 0
Selected(f) == IF FirstTrue(f) # 0 THEN FirstTrue(f) ELSE Greatest(Elses(f))

\* C1 as stated: the body emitted for a conditional is that of the first
\* clause, in declaration order, whose condition is true or absent; no clause
\* declared after an ELSE is ever emitted
C1_FirstMatchEmitted ==
    Evaluated =>
        /\ \A f \in IfIds : \A i \in Clauses(f) : Emitted(f, i) => i = FirstMatch(f)
        /\ \A f \in TopIfs : FirstMatch(f) # 0 => Emitted(f, FirstMatch(f))

\* C1 amended: the body emitted for a conditional is that of the first clause
\* whose condition is true when there is one (the loop stops there), and
\* otherwise that of the last ELSE: an ELSE does not end the loop, so a true
\* ELIF declared after an ELSE is the clause emitted
C1_FirstTrueElseLastElse ==
    Evaluated =>
        /\ \A f \in IfIds : \A i \in Clauses(f) : Emitted(f, i) => i = Selected(f)
        /\ \A f \in TopIfs : Selected(f) # 0 => Emitted(f, Selected(f))

\* a true ELIF after an ELSE was emitted
C1_Witness ==
    /\ Evaluated
    /\ \E f \in TopIfs : \E i \in Clauses(f) :
          /\ Emitted(f, i) /\ CondTrue(f, i)
          /\ \E j \in Elses(f) : j < i

\* C2 as stated: with two or more ELSE tags parsing succeeds and, when no
\* conditioned clause is true, the body emitted is that of the first ELSE;
\* no later ELSE is ever emitted
C2_FirstElseEmitted ==
    Evaluated =>
        \A f \in IfIds : Cardinality(Elses(f)) >= 2 =>
            /\ \A i \in Elses(f) : Emitted(f, i) => i = Least(Elses(f))
            /\ (f \in TopIfs /\ FirstTrue(f) = 0) => Emitted(f, Least(Elses(f)))

\* C2 amended: with two or more ELSE tags parsing succeeds and, when no
\* conditioned clause is true, the body emitted is that of the last ELSE; no
\* earlier ELSE is ever emitted
C2_LastElseEmitted ==
    /\ (pc = "failed" /\ err \notin {ErrVars, ErrTags, ErrBoth}) => M.tag # <<"E","L","S","E">> \/ NoOpenIf(stack)
    /\ Evaluated =>
        \A f \in IfIds : Cardinality(Elses(f)) >= 2 =>
            /\ \A i \in Elses(f) : Emitted(f, i) => (i = Greatest(Elses(f)) /\ FirstTrue(f) = 0)
            /\ (f \in TopIfs /\ FirstTrue(f) = 0) => Emitted(f, Greatest(Elses(f)))

\* the second ELSE of a conditional was emitted
C2_Witness ==
    /\ Evaluated
    /\ \E f \in TopIfs :
          /\ Cardinality(Elses(f)) >= 2
          /\ Emitted(f, Greatest(Elses(f)))

\* the letter after the i-th tag of a generated template
Letter(i) == AsciiLower[i + 1]

\* C3: for IF, n ELIF, one ELSE, /IF the output is the text before the IF,
\* the body of exactly one clause (the first whose condition is true, else
\* the ELSE body) and the text after the /IF
C3_LadderEmitsOne ==
    \A n \in 0..MaxElifs :
        (pc = "render_variables" /\ raw = ShapeTemplate(Ladder(n))) =>
            LET T == {i \in 1..(n + 1) : _truthy(DictGet(ctx, CondVar(i)))}
                k == IF T = {} THEN n + 2 ELSE Least(T)
            IN  out = <<"a", Letter(k), Letter(n + 3)>>

\* a ladder with two ELIF whose second ELIF was the clause emitted
C3_Witness ==
    /\ pc = "render_variables" /\ raw = ShapeTemplate(Ladder(2))
    /\ out = <<"a", Letter(3), Letter(5)>>

\* C4: of the clauses of one conditional at most one has its body in the output
C4_AtMostOneClause ==
    Evaluated => \A f \in IfIds : Cardinality({i \in Clauses(f) : Emitted(f, i)}) <= 1

\* a conditional with an ELSE and a true condition after it emitted one body
C4_Witness ==
    /\ Evaluated
    /\ \E f \in IfIds :
          /\ \E i \in Elses(f) : \E j \in Clauses(f) : j > i /\ CondTrue(f, j)
          /\ Cardinality({i \in Clauses(f) : Emitted(f, i)}) = 1

-----------------------------------------------------------------------------
(* Properties of the parser and of render_docx *)

ParseErrors == { "Etiqueta [[ELIF]] sin [[IF]] correspondiente",
                 "Etiqueta [[ELSE]] sin [[IF]] correspondiente",
                 "Etiqueta [[/IF]] sin [[IF]] correspondiente" }

\* IF tags minus /IF tags among the first k matches: the number of open conditionals
OpenAfter(k) ==
    Cardinality({j \in 1..k : tags[j].tag = <<"I","F">>})
    - Cardinality({j \in 1..k : tags[j].tag = <<"/","I","F">>})

\* C5: the step of the for loop on a tag raises exactly when the tag is an
\* ELIF, ELSE or /IF and no conditional is open, whatever ctx and estricto are
C5_RaisesIffNoOpenIf ==
    [][(pc = "_parse_to_ast" /\ ti < Len(tags)) =>
          /\ (pc' = "failed") <=> (M.tag # <<"I","F">> /\ OpenAfter(ti) = 0)
          /\ (pc' = "failed") => err' \in ParseErrors
          /\ (pc' # "failed") => (pc' = "_parse_to_ast" /\ ti' = ti + 1 /\ err' = "")]_vars

\* an ELSE raised after an IF had been opened and closed
C5_Witness ==
    /\ pc = "failed" /\ err = "Etiqueta [[ELSE]] sin [[IF]] correspondiente"
    /\ ti >= 2

\* the conditionals still open, outermost first
OpenIfs == [k \in 1..((Len(stack) - 1) \div 2) |-> stack[2 * k + 1].id]

\* C6: a template that ends inside open conditionals is parsed without error,
\* each open conditional is a child of the node it was opened in, and the
\* text after the last tag is emitted exactly when, in every open
\* conditional, the clause that holds it (the last one) is the clause chosen
C6_UnclosedIfKept ==
    /\ (pc = "_parse_to_ast" /\ ti = Len(tags)) => err = ""
    /\ (Evaluated /\ Len(stack) > 1) =>
          /\ \A k \in 1..Len(OpenIfs) :
                /\ \E j \in 1..Len(nodes[stack[2 * k].id]) : nodes[stack[2 * k].id][j].ref = OpenIfs[k]
                /\ k < Len(OpenIfs) => stack[2 * k + 2].id = ifs[OpenIfs[k]][Len(ifs[OpenIfs[k]])].node
          /\ cur = ifs[OpenIfs[Len(OpenIfs)]][Len(ifs[OpenIfs[Len(OpenIfs)]])].node
          /\ nodes[cur] # << >> /\ nodes[cur][Len(nodes[cur])] = StrChild(<<raw[Len(raw)]>>)
          /\ Contains(out, raw[Len(raw)])
                <=> \A k \in 1..Len(OpenIfs) : Selected(OpenIfs[k]) = Len(ifs[OpenIfs[k]])

\* two conditionals were left open and the text after the last tag was emitted
C6_Witness ==
    /\ Evaluated /\ Len(stack) = 5
    /\ Contains(out, raw[Len(raw)])

\* C7: once the render has failed no document exists, and a document exists
\* only after render_text returned
C7_NoDocOnFailure ==
    /\ (pc = "failed" \/ err # "") => doc = << >>
    /\ doc # << >> => (pc = "done" /\ err = "")

\* a strict render failed on residue
C7_Witness == pc = "failed" /\ err = ErrBoth /\ doc = << >>

-----------------------------------------------------------------------------
(* _eval_condition as a function: one call on an expression and a context *)

CondVals ==
    { VBool(TRUE), VBool(FALSE), VNone, VInt(0), VInt(1), VInt(3), VFloat(1, 0), VFloat(15, 1),
      VStr(<<"1">>), VStr(<<"3">>), VStr(<<"t","r","u","e">>), VStr(<< >>), VStr(<<"a","b","c">>),
      VDict(<<Entry(<<"b">>, VInt(1))>>),
      VInt(-1), VFloat(0, 0), VDict(<< >>),
      VStr(<<"F","A","L","S","E">>), VStr(<<"N","o">>), VStr(<<"0">>), VStr(<<"n","u","l","l">>),
      VStr(<<"N","o","n","e">>), VStr(<<"n">>), VStr(<<"y","e","s">>), VStr(<<"0","0">>),
      VStr(<<" ","N","o"," ">>), VStr(<<" ">>), VStr(<<"\t","0","\n">>), VStr(<<"n"," ","o">>) }

\* {"x": v, "a": {"b": v}}
CondCtx(v) == VDict(<<Entry(<<"x">>, v), Entry(<<"a">>, VDict(<<Entry(<<"b">>, v)>>))>>)

CondCtxs == {CondCtx(v) : v \in CondVals}

CondPaths == { <<"x">>, <<"a",".","b">>, <<"m">> }

Spacings == { << >>, <<" ">> }

LitTokens ==
    { <<"1">>, <<"0">>, <<"3">>, <<"1",".","0">>, <<"1",".","5">>, <<"0",".","0">>,
      <<"t","r","u","e">>, <<"T","r","u","e">>, <<"f","a","l","s","e">>,
      <<"n","u","l","l">>, <<"N","o","n","e">>,
      <<"'","1","'">>, <<"\"","3","\"">>, <<"'","t","r","u","e","'">>, <<"'","'">>,
      <<"a","b","c">>, <<"'","a","b","c","'">> }

OpExpr(path, sp, op, lit) == path \o sp \o op \o sp \o lit

CondExprs ==
    {OpExpr(path, sp, op, lit) :
        path \in CondPaths, sp \in Spacings, op \in { <<"=","=">>, <<"!","=">> }, lit \in LitTokens}
    \cup CondPaths
    \cup {<<"!">> \o sp \o path : sp \in Spacings, path \in CondPaths}
    \cup {sp \o <<"!">> \o OpExpr(path, sp, op, <<"1">>) :
            sp \in Spacings, path \in CondPaths, op \in { <<"=","=">>, <<"!","=">> }}
    \cup { <<"!","=","1">>, <<"!">> }

Idle ==
    /\ tags = << >> /\ ti = 0
    /\ nodes = << >> /\ ifs = << >>
    /\ stack = << >> /\ cur = 0 /\ last_pos = 0
    /\ err = "" /\ doc = << >>
    /\ estricto = FALSE
    /\ other = NoFrame

CondInit ==
    /\ pc = "_eval_condition"
    /\ expr \in CondExprs
    /\ ctx \in CondCtxs
    /\ res = VNone
    /\ raw = << >> /\ out = << >>
    /\ Idle

EvalCondition ==
    /\ pc = "_eval_condition"
    /\ res' = VBool(_eval_condition(expr, ctx))
    /\ pc' = "returned"
    /\ UNCHANGED <<raw, ctx, estricto, tags, ti, nodes, ifs, stack, cur, last_pos, out, err, doc, expr, other>>

SpecCond == CondInit /\ [][EvalCondition]_vars

\* the types of the context model: boolean, number, string, null, mapping
TypeOf(v) == IF v.t \in {"int", "float"} THEN "number" ELSE v.t

SameTypeAndValue(a, b) ==
    TypeOf(a) = TypeOf(b) /\ a.n = b.n /\ a.e = b.e /\ a.s = b.s /\ a.d = b.d

\* C8: path == literal is true only when the value looked up and the parsed
\* literal have the same type and the same value
C8_EqualityIsTyped ==
    \A path \in CondPaths : \A sp \in Spacings : \A lit \in LitTokens :
        (pc = "returned" /\ expr = OpExpr(path, sp, <<"=","=">>, lit) /\ res = VBool(TRUE))
            => SameTypeAndValue(_get_ctx_value(ctx, path), _parse_literal(lit))

-----------------------------------------------------------------------------
(* render_variables as a function: one call on a text and a context *)

VarPaths ==
    { Name, <<"m","i","s","s","i","n","g">>, <<"a",".","b">>, <<"a",".","b",".","c">>,
      <<"a",".","x">>, <<"z">>, <<"a",".","n">>, <<"a",".",".","b">> }

KnownFilters == { <<"u","p","p","e","r">>, <<"l","o","w","e","r">>, <<"t","i","t","l","e">> }

UnknownFilters == { <<"f","o","o">>, <<"U","P","P","E","R">>, <<"u","p","p","e","r","c","a","s","e">> }

\* {{path}} or {{path|filt}} with sp at every place where the syntax allows blanks
PhText(path, sp, filt) ==
    <<"{","{">> \o sp \o path \o sp
    \o (IF filt = << >> THEN << >> ELSE <<"|">> \o sp \o filt \o sp)
    \o <<"}","}">>

Wrap(t) == <<"<">> \o t \o <<">">>

VarTexts ==
    {Wrap(PhText(path, sp, filt)) :
        path \in VarPaths, sp \in Spacings, filt \in {<< >>} \cup KnownFilters \cup UnknownFilters}

\* {"name": v, "a": {"b": "s", "n": null}, "z": null}
VarCtx(v) ==
    VDict(<< Entry(Name, v),
             Entry(<<"a">>, VDict(<<Entry(<<"b">>, VStr(<<"s">>)), Entry(<<"n">>, VNone)>>)),
             Entry(<<"z">>, VNone) >>)

VarCtxs == {VarCtx(v) : v \in { VStr(<<"a","n","a">>), VStr(<<"A","n","a"," ","m","A","R","I","A">>),
                                VInt(7), VBool(TRUE), VNone }}

VarInit ==
    /\ pc = "render_variables"
    /\ raw \in VarTexts
    /\ out = raw
    /\ ctx \in VarCtxs
    /\ expr = << >> /\ res = VNone
    /\ Idle

SpecVars == VarInit /\ [][RenderVariables]_vars

Substituted == pc = NextPc("render_variables")

\* C9: a placeholder with a filter name other than upper, lower and title is
\* replaced by the unfiltered string of the value of its path
C9_UnknownFilterIsNoFilter ==
    \A path \in VarPaths : \A sp \in Spacings : \A filt \in UnknownFilters :
        (Substituted /\ raw = Wrap(PhText(path, sp, filt)))
            => out = Wrap(_apply_filter(_get_ctx_value(ctx, path), << >>))

RECURSIVE NullAt(_, _)
\* following the segments from v, a segment is absent, or the value reached is
\* no mapping, or the value at the end is null
NullAt(v, parts) ==
    IF parts = << >> THEN v.t = "none"
    ELSE \/ v.t # "dict"
         \/ ~HasKey(v, Head(parts))
         \/ NullAt(DictGet(v, Head(parts)), Tail(parts))

\* C10: a placeholder, with or without one of the filters, whose path cannot
\* be resolved or resolves to null is looked up as None and replaced by the
\* empty string
C10_MissingIsEmpty ==
    \A path \in VarPaths : \A sp \in Spacings : \A filt \in {<< >>} \cup KnownFilters :
        (raw = Wrap(PhText(path, sp, filt)) /\ NullAt(ctx, Split(path, ".")))
            => /\ _get_ctx_value(ctx, path) = VNone
               /\ Substituted => out = Wrap(<< >>)

\* {{a.b.c|upper}}, where a.b is a string, was replaced by the empty string
C10_Witness ==
    /\ Substituted
    /\ raw = Wrap(PhText(<<"a",".","b",".","c">>, << >>, <<"u","p","p","e","r">>))
    /\ out = Wrap(<< >>)

-----------------------------------------------------------------------------
(* render_docx on contexts with missing, null and wrongly typed values *)

\* [[IF x]]YES[[ELSE]]NO[[/IF]] - {{name|upper}}
Scenario ==
    <<"[","[","I","F"," ","x","]","]","Y","E","S","[","[","E","L","S","E","]","]","N",
      "O","[","[","/","I","F","]","]"," ","-"," ","{","{","n","a","m","e","|","u","p",
      "p","e","r","}","}">>

\* {"x": b, "name": "ana"}
ScenarioCtx(b) == VDict(<<Entry(<<"x">>, VBool(b)), Entry(Name, VStr(<<"a","n","a">>))>>)

DataTemplates ==
    { Scenario,
      \* conditions of every form and placeholders of every form
      \* [[IF x]]A[[ELIF a.b == 1]]B[[ELIF x != 'abc']]C[[ELSE]]D[[/IF]]{{x}}{{a.b|upper}}{{a.b.c}}
      <<"[","[","I","F"," ","x","]","]","A","[","[","E","L","I","F"," ","a",".","b"," ",
        "=","="," ","1","]","]","B","[","[","E","L","I","F"," ","x"," ","!","="," ","'",
        "a","b","c","'","]","]","C","[","[","E","L","S","E","]","]","D","[","[","/","I",
        "F","]","]","{","{","x","}","}","{","{","a",".","b","|","u","p","p","e","r","}",
        "}","{","{","a",".","b",".","c","}","}">>,
      \* a negation, an empty condition and a condition with no literal
      \* [[IF !x]]{{x|title}}[[/IF]][[IF]]q[[/IF]][[IF x ==]]r[[ELIF a..b]]s[[/IF]]
      <<"[","[","I","F"," ","!","x","]","]","{","{","x","|","t","i","t","l","e","}","}",
        "[","[","/","I","F","]","]","[","[","I","F","]","]","q","[","[","/","I","F","]",
        "]","[","[","I","F"," ","x"," ","=","=","]","]","r","[","[","E","L","I","F"," ",
        "a",".",".","b","]","]","s","[","[","/","I","F","]","]">>,
      \* an IF left open
      \* [[IF a.b]]u{{ a | lower }}
      <<"[","[","I","F"," ","a",".","b","]","]","u","{","{"," ","a"," ","|"," ","l","o",
        "w","e","r"," ","}","}">>,
      \* residue of both kinds
      \* {{v}}[[IFX]]
      <<"{","{","v","}","}","[","[","I","F","X","]","]">>,
      \* no tag at all
      \* k {{m}} 
      <<"k"," ","{","{","m","}","}"," ">>,
      \* a placeholder inside braces
      \* {{{{m}}y}}
      <<"{","{","{","{","m","}","}","y","}","}">>,
      \* an ELIF, an ELSE and a /IF with no open IF
      <<"a","[","[","E","L","I","F"," ","x","]","]","b">>,
      <<"[","[","I","F"," ","x","]","]","a","[","[","/","I","F","]","]","[","[","E","L",
        "S","E","]","]","b">>,
      <<"[","[","/","I","F","]","]">> }

\* the two contexts of the scenario, {}, x null, x and a strings, x a mapping, x a number and a.b a float, and
\* x true with v holding placeholder syntax
DataCtxs ==
    { ScenarioCtx(TRUE), ScenarioCtx(FALSE),
      VDict(<< >>),
      VDict(<<Entry(<<"x">>, VNone)>>),
      VDict(<<Entry(<<"x">>, VStr(<<"a","b","c">>)), Entry(<<"a">>, VStr(<<"s">>))>>),
      VDict(<<Entry(<<"x">>, VDict(<<Entry(<<"b">>, VInt(1))>>)), Entry(<<"a">>, VDict(<< >>))>>),
      VDict(<<Entry(<<"x">>, VInt(0)), Entry(<<"a">>, VDict(<<Entry(<<"b">>, VFloat(15, 1))>>))>>),
      VDict(<<Entry(<<"x">>, VBool(TRUE)), Entry(<<"a">>, VDict(<<Entry(<<"b">>, VInt(1))>>)),
              Entry(<<"v">>, VStr(Ph(<<"y">>)))>>) }

DataInit ==
    /\ pc = "render_docx"
    /\ raw \in DataTemplates
    /\ ctx \in DataCtxs
    /\ estricto \in BOOLEAN
    /\ tags = << >> /\ ti = 0
    /\ nodes = << >> /\ ifs = << >>
    /\ stack = << >> /\ cur = 0 /\ last_pos = 0
    /\ out = << >> /\ err = "" /\ doc = << >>
    /\ expr = << >> /\ res = VNone
    /\ other = NoFrame

SpecData == DataInit /\ [][Next]_vars

\* C11: a non-strict render fails only on an ELIF, ELSE or /IF met with no
\* conditional open; the strict check raises nothing and the text is returned
C11_NonStrictNeverFails ==
    ~estricto =>
        /\ pc = "failed" => (err \in ParseErrors /\ M.tag # <<"I","F">> /\ OpenAfter(ti) = 0)
        /\ pc = "strict" => StrictError(out, estricto) = ""
        /\ pc = "done" => (err = "" /\ doc = Split(out, "\n"))

\* a non-strict render of a template with conditions and placeholders
\* returned for the empty context
C11_Witness ==
    /\ ~estricto /\ pc = "done" /\ ctx = VDict(<< >>)
    /\ Len(tags) >= 5 /\ out # << >>

-----------------------------------------------------------------------------
(* The strict check *)

AllIdent(t) == t # << >> /\ \A i \in 1..Len(t) : IsIdent(t[i])

\* what may stand between {{ and }} of a placeholder: a path, or a path, a
\* bar and one of upper, lower, title, with blanks around each
IsPlaceholderBody(b) ==
    LET t == Strip(b)
    IN  \/ AllIdent(t)
        \/ \E k \in 1..Len(t) :
              /\ t[k] = "|"
              /\ AllIdent(Strip(SubSeq(t, 1, k - 1)))
              /\ Strip(SubSeq(t, k + 1, Len(t))) \in Range(FilterWords)

\* some piece of s is a placeholder
HasPlaceholder(s) ==
    \E p \in 1..Len(s) : \E q \in (p + 2)..Len(s) :
        /\ HasAt(s, p, <<"{","{">>) /\ HasAt(s, q, <<"}","}">>)
        /\ IsPlaceholderBody(SubSeq(s, p + 2, q - 1))

\* some piece of s is [[ then a keyword in any case, then characters other
\* than ], then ]]
HasTagSyntax(s) ==
    \E p \in 1..Len(s) : \E q \in (p + 2)..Len(s) : \E w \in Range(TagWords) :
        /\ HasAt(s, p, <<"[","[">>) /\ HasAt(s, q, <<"]","]">>)
        /\ q >= p + 2 + Len(w)
        /\ StrLower(SubSeq(s, p + 2, p + 1 + Len(w))) = StrLower(w)
        /\ \A i \in (p + 2 + Len(w))..(q - 1) : s[i] # "]"

\* the message that names the categories found
Leftovers(s) ==
    IF HasPlaceholder(s) /\ HasTagSyntax(s)
    THEN "Quedaron marcadores sin resolver: placeholders {{...}}, etiquetas [[IF/ELIF/ELSE/IF]]"
    ELSE IF HasPlaceholder(s) THEN "Quedaron marcadores sin resolver: placeholders {{...}}"
    ELSE IF HasTagSyntax(s) THEN "Quedaron marcadores sin resolver: etiquetas [[IF/ELIF/ELSE/IF]]"
    ELSE ""

\* C12: a strict render that got past the parser fails exactly when its
\* normalized text holds a placeholder or control-tag syntax, and the message
\* names the categories found: placeholders, tags, or both
C12_StrictFailsOnResidue ==
    (estricto /\ err \notin ParseErrors) =>
        /\ pc = "failed" => (Leftovers(out) # "" /\ err = Leftovers(out))
        /\ pc \in {"text_to_doc", "done"} => Leftovers(out) = ""

\* a strict render failed on text that holds control-tag syntax and no placeholder
C12_Witness ==
    /\ estricto /\ pc = "failed" /\ HasTagSyntax(out) /\ ~HasPlaceholder(out)
    /\ err = "Quedaron marcadores sin resolver: etiquetas [[IF/ELIF/ELSE/IF]]"

-----------------------------------------------------------------------------
(* A non-strict render followed by the strict render of the same template    *)
(* and context                                                               *)

\* the state of a call that has not started: no tree, no text, no document
NewCall ==
    /\ pc' = "render_docx"
    /\ tags' = << >> /\ ti' = 0
    /\ nodes' = << >> /\ ifs' = << >>
    /\ stack' = << >> /\ cur' = 0 /\ last_pos' = 0
    /\ out' = << >> /\ err' = "" /\ doc' = << >>
    /\ expr' = << >>

\* the caller keeps the text of the finished non-strict render in res and
\* calls render_docx again with estricto = True
CallStrict ==
    /\ pc = "done" /\ ~estricto /\ res = VNone
    /\ res' = VStr(out)
    /\ estricto' = TRUE
    /\ NewCall
    /\ UNCHANGED <<raw, ctx, other>>

StrictInit == Init /\ ~estricto

SpecStrict == StrictInit /\ [][Next \/ CallStrict]_vars

\* the strict render of the pair is the one that runs with a text kept in res
SecondCall == res.t = "str"

\* C13: the strict render computes the text the non-strict render returned:
\* it returns that text when it returns, and when it fails on residue the text
\* it rejected is the one the non-strict render returned, residue included
C13_StrictOnlyAddsFailure ==
    (SecondCall /\ estricto) =>
        /\ pc \in {"strict", "text_to_doc", "done"} => out = res.s
        /\ (pc = "failed" /\ err \notin ParseErrors) =>
              (out = res.s /\ Leftovers(res.s) = err)

\* a strict render failed on the residue the non-strict render had returned
C13_Witness ==
    /\ SecondCall /\ estricto /\ pc = "failed"
    /\ out = res.s /\ HasPlaceholder(res.s) /\ HasTagSyntax(res.s)

-----------------------------------------------------------------------------
(* A strict render followed by a render of its output with the empty context *)

\* the caller keeps the text T of the finished strict render in res and calls
\* render_docx on T as the template, with ctx = {}
RenderOutput ==
    /\ pc = "done" /\ estricto /\ res = VNone
    /\ res' = VStr(out)
    /\ raw' = out
    /\ ctx' = VDict(<< >>)
    /\ estricto' \in BOOLEAN
    /\ NewCall
    /\ UNCHANGED other

RoundTripInit == Init /\ estricto

SpecRoundTrip == RoundTripInit /\ [][Next \/ RenderOutput]_vars

\* C14: the render of the output T of a successful strict render, with the
\* empty context, does not fail and computes T again
C14_RoundTrip ==
    SecondCall =>
        /\ pc # "failed"
        /\ pc \in {"strict", "text_to_doc", "done"} => out = res.s

-----------------------------------------------------------------------------
(* Templates with no control tag *)

\* the parser has searched the template and found no tag
NoControlTag == pc # "render_docx" /\ tags = << >>

\* C15 as stated: the render of a template with no control tag returns what
\* the variable substitution pass alone makes of the template
C15_SubstitutionAlone ==
    (NoControlTag /\ pc \in {"strict", "text_to_doc", "done"}) =>
        out = render_variables(raw, ctx)

\* C15: on a template with no control tag the conditional pass returns the
\* template unchanged, so the render returns what the variable substitution
\* pass followed by the text normalizer makes of the template
C15_SubstitutionThenClean ==
    NoControlTag =>
        /\ pc = "render_variables" => out = raw
        /\ pc = "_clean_text" => out = render_variables(raw, ctx)
        /\ pc \in {"strict", "text_to_doc", "done"} =>
              out = _clean_text(render_variables(raw, ctx))

\* a template with placeholders and no tag was rendered, and the text
\* returned is not the one substitution alone gives
C15_Witness ==
    /\ NoControlTag /\ pc = "done" /\ HasPlaceholder(raw)
    /\ out # render_variables(raw, ctx)

-----------------------------------------------------------------------------
(* render_docx on nested conditionals with an IF and an ELSE at every level  *)

\* deepest nesting of the generated templates
MaxDepth == 5

\* d conditionals, each nested in the IF branch of the one before:
\* IF (d times), then ELSE, /IF for the innermost one first
NestThen(d) ==
    [i \in 1..(3 * d) |-> IF i <= d THEN "IF" ELSE IF (i - d) % 2 = 1 THEN "ELSE" ELSE "/IF"]

\* d conditionals, each nested in the ELSE branch of the one before:
\* IF, ELSE (d times), then /IF (d times)
NestElse(d) ==
    [i \in 1..(3 * d) |-> IF i > 2 * d THEN "/IF" ELSE IF i % 2 = 1 THEN "IF" ELSE "ELSE"]

\* the variable the conditional of level k tests: c1, c2, ...
LevelVar(k) == <<"c">> \o NatStr(k)

\* the level of the IF that is the i-th tag of sh
LevelAt(sh, i) == Cardinality({j \in 1..i : sh[j] = "IF"})

NestTag(sh, i) ==
    IF sh[i] = "IF" THEN <<"[","[","I","F"," ">> \o LevelVar(LevelAt(sh, i)) \o <<"]","]">>
    ELSE TagText(sh[i], i)

\* as ShapeTemplate: "a", then each tag followed by the next letter
NestTemplate(sh) ==
    <<"a">> \o Join([i \in 1..Len(sh) |-> NestTag(sh, i) \o <<AsciiLower[i + 1]>>])

NestThenTemplates == [d \in 1..MaxDepth |-> NestTemplate(NestThen(d))]

NestElseTemplates == [d \in 1..MaxDepth |-> NestTemplate(NestElse(d))]

\* the generated templates of at most two tags, among them the ones the parser rejects
SmallTemplates == {ShapeTemplate(sh) : sh \in UNION {[1..n -> TagKinds] : n \in 1..2}}

NestTemplates == Range(NestThenTemplates) \cup Range(NestElseTemplates)

\* every combination of truth values of c1, c2, ...
NestCtxs ==
    {VDict([k \in 1..MaxDepth |-> Entry(LevelVar(k), VBool(f[k]))]) : f \in [1..MaxDepth -> BOOLEAN]}

NestInit ==
    /\ pc = "render_docx"
    /\ raw \in NestTemplates \cup SmallTemplates
    /\ ctx \in NestCtxs
    /\ estricto \in BOOLEAN
    /\ tags = << >> /\ ti = 0
    /\ nodes = << >> /\ ifs = << >>
    /\ stack = << >> /\ cur = 0 /\ last_pos = 0
    /\ out = << >> /\ err = "" /\ doc = << >>
    /\ expr = << >> /\ res = VNone
    /\ other = NoFrame

SpecNest == NestInit /\ [][Next]_vars

\* the truth value the context gives to the condition of level k
C(k) == DictGet(ctx, LevelVar(k)) = VBool(TRUE)

\* level k is on the path when every level outside it chose the branch that holds it
OnPathThen(k) == \A j \in 1..(k - 1) : C(j)

OnPathElse(k) == \A j \in 1..(k - 1) : ~C(j)

\* NestThen(d): the i-th letter is the IF text of level i (i <= d), or the
\* ELSE text of level k, or the text after the /IF of level k, which lies in
\* the IF branch of level k - 1
KeptThen(d, i) ==
    IF i <= d THEN OnPathThen(i) /\ C(i)
    ELSE LET k == d - ((i - d - 1) \div 2)
         IN  IF (i - d) % 2 = 1 THEN OnPathThen(k) /\ ~C(k) ELSE OnPathThen(k)

\* NestElse(d): the letters 2k - 1 and 2k are the IF and the ELSE text of
\* level k, and the text after the /IF of level k lies in the ELSE branch of
\* level k - 1
KeptElse(d, i) ==
    IF i > 2 * d THEN OnPathElse(3 * d + 1 - i)
    ELSE LET k == (i + 1) \div 2
         IN  IF i % 2 = 1 THEN OnPathElse(k) /\ C(k) ELSE OnPathElse(k) /\ ~C(k)

\* the letters on the path, in the order of the template
PathText(d, Kept(_, _)) ==
    <<"a">> \o Join([i \in 1..(3 * d) |-> IF Kept(d, i) THEN <<AsciiLower[i + 1]>> ELSE << >>])

\* C16: for conditionals nested up to MaxDepth deep with an IF and an ELSE
\* branch at every level, in the IF branches or in the ELSE branches, and
\* for every combination of truth values, the parser accepts the template and
\* the output is exactly the text on the path of the chosen branches
C16_NestedPath ==
    \A d \in 1..MaxDepth :
        /\ raw = NestThenTemplates[d] =>
              /\ pc # "failed"
              /\ pc \in {"render_variables", "done"} => out = PathText(d, KeptThen)
        /\ raw = NestElseTemplates[d] =>
              /\ pc # "failed"
              /\ pc \in {"render_variables", "done"} => out = PathText(d, KeptElse)

\* five levels deep: outer four conditions true, the innermost false, and the
\* render returned
C16_Witness ==
    /\ pc = "done" /\ raw = NestThenTemplates[5]
    /\ C(1) /\ C(2) /\ C(3) /\ C(4) /\ ~C(5)
    /\ out = <<"a","b","c","d","e","g","h","j","l","n","p">>

-----------------------------------------------------------------------------
(* The scenario template *)

\* C17: [[IF x]]YES[[ELSE]]NO[[/IF]] - {{name|upper}} renders as YES - ANA
\* with {x: true, name: "ana"} and as NO - ANA with {x: false, name: "ana"},
\* strict or not
C17_Scenario ==
    \A b \in BOOLEAN :
        (raw = Scenario /\ ctx = ScenarioCtx(b)) =>
            /\ pc # "failed"
            /\ pc \in {"strict", "text_to_doc", "done"} =>
                  out = (IF b THEN <<"Y","E","S">> ELSE <<"N","O">>) \o <<" ","-"," ","A","N","A">>

\* the render with x false returned NO - ANA as the one paragraph of the document
C17_Witness ==
    /\ pc = "done" /\ raw = Scenario /\ ctx = ScenarioCtx(FALSE)
    /\ doc = << <<"N","O"," ","-"," ","A","N","A">> >>

-----------------------------------------------------------------------------
(* Context values that hold template syntax *)

\* C18: the value {{y}} of v and the value [[IF y]] of t are inserted as they
\* are: the non-strict render of {{v}}{{missing}} returns {{y}} and that of
\* k{{t}}q returns k[[IF y]]q, with no later pass over the inserted text
C18_ValuesNotExpanded ==
    (~estricto /\ pc \in {"_clean_text", "strict", "text_to_doc", "done"}) =>
        /\ raw = Ph(<<"v">>) \o Ph(<<"m","i","s","s","i","n","g">>) => out = <<"{","{","y","}","}">>
        /\ raw = <<"k">> \o Ph(<<"t">>) \o <<"q">> =>
              out = <<"k","[","[","I","F"," ","y","]","]","q">>

\* non-strict renders returned the value of t where {{t}} stood, with y in
\* the context
C18_Witness ==
    /\ ~estricto /\ pc = "done" /\ HasKey(ctx, <<"y">>)
    /\ raw = <<"k">> \o Ph(<<"t">>) \o <<"q">>
    /\ doc = << <<"k","[","[","I","F"," ","y","]","]","q">> >>

-----------------------------------------------------------------------------
(* Truthiness of a looked-up value, through the bare path x *)

\* the looked-up value of the bare path x
X == DictGet(ctx, <<"x">>)

FalseWords == { <<"f","a","l","s","e">>, <<"n","o">>, <<"0">>, << >>,
                <<"n","u","l","l">>, <<"n","o","n","e">> }

\* s is one of the false words, compared case-insensitively
IsFalseWord(s) == StrLower(s) \in FalseWords

\* s is a false word with white space before and after it
IsPaddedFalseWord(s) ==
    \E i \in 1..(Len(s) + 1) : \E j \in (i - 1)..Len(s) :
        /\ \A k \in 1..(i - 1) : IsSpace(s[k])
        /\ \A k \in (j + 1)..Len(s) : IsSpace(s[k])
        /\ IsFalseWord(SubSeq(s, i, j))

\* a boolean is its own value, null is false, a number is false at zero only,
\* a string is false when False(s) holds, any other value is true
Truth(v, False(_)) ==
    IF v.t = "bool" THEN v = VBool(TRUE)
    ELSE IF v.t = "none" THEN FALSE
    ELSE IF v.t \in {"int", "float"} THEN v.n # 0
    ELSE IF v.t = "str" THEN ~False(v.s)
    ELSE TRUE

BareX == pc = "returned" /\ expr = <<"x">>

\* C19 as stated: a string is false exactly when it is one of the false
\* words, compared case-insensitively
C19_TruthTable == BareX => res = VBool(Truth(X, IsFalseWord))

\* C19: a boolean is its own value, null is false, a number is false only at
\* zero, a string is false exactly when, with the white space around it
\* removed and compared case-insensitively, it is one of false, no, 0, the
\* empty string, null, none, and a mapping is true
C19_TruthTableTrimmed == BareX => res = VBool(Truth(X, IsPaddedFalseWord))

\* the string " No " was found false
C19_Witness == BareX /\ X = VStr(<<" ","N","o"," ">>) /\ res = VBool(FALSE)

-----------------------------------------------------------------------------
(* _clean_text as a function: one call on a text of letters, blanks and      *)
(* newlines                                                                  *)

\* longest text given to _clean_text
MaxText == 5

CleanChars == {"a", " ", "\t", "\n"}

CleanTexts == UNION {[1..n -> CleanChars] : n \in 0..MaxText}

CleanInit ==
    /\ pc = "_clean_text"
    /\ raw \in CleanTexts
    /\ out = raw
    /\ ctx = VDict(<< >>)
    /\ expr = << >> /\ res = VNone
    /\ Idle

SpecClean == CleanInit /\ [][CleanText]_vars

Cleaned == pc = NextPc("_clean_text")

\* the i-th character of s is a space or tab with only spaces and tabs
\* between it and the next newline or the end of s
IsTrailingBlank(s, i) ==
    \E j \in (i + 1)..(Len(s) + 1) :
        /\ j = Len(s) + 1 \/ s[j] = "\n"
        /\ \A k \in i..(j - 1) : s[k] \in {" ", "\t"}

\* s without its trailing blanks
WithoutTrailing(s) ==
    Join([i \in 1..Len(s) |-> IF IsTrailingBlank(s, i) THEN << >> ELSE <<s[i]>>])

\* s without the newlines that come right after two newlines: of every run of
\* newlines the first two stay
TwoOfEachRun(s) ==
    Join([i \in 1..Len(s) |->
            IF i >= 3 /\ s[i] = "\n" /\ s[i-1] = "\n" /\ s[i-2] = "\n" THEN << >> ELSE <<s[i]>>])

\* C20: the text _clean_text returns, which is the text the render returns,
\* has no run of three or more newlines and no space or tab right before a
\* newline or at its end, and it is the text without its trailing blanks in
\* which every run of three or more newlines has become two newlines
C20_Normalized ==
    Cleaned =>
        /\ \A i \in 1..(Len(out) - 2) : ~(out[i] = "\n" /\ out[i+1] = "\n" /\ out[i+2] = "\n")
        /\ \A i \in 1..Len(out) :
              out[i] \in {" ", "\t"} => (i < Len(out) /\ out[i+1] # "\n")
        /\ out = TwoOfEachRun(WithoutTrailing(raw))

\* three newlines were left after the blanks between them had been removed,
\* and two were returned
C20_Witness ==
    /\ Cleaned /\ raw = <<"\n", " ", "\n", "\t", "\n">>
    /\ WithoutTrailing(raw) = <<"\n", "\n", "\n">>
    /\ out = <<"\n", "\n">>

-----------------------------------------------------------------------------
(* Two renders at once: render A runs alone, then runs again while render B, *)
(* with its own template and context, runs too, their steps interleaved      *)

TwoTemplates ==
    { \* [[IF x]]{{name}}[[ELIF y]]m[[ELSE]]n[[/IF]]
      <<"[","[","I","F"," ","x","]","]","{","{","n","a","m","e","}","}","[","[","E","L",
        "I","F"," ","y","]","]","m","[","[","E","L","S","E","]","]","n","[","[","/","I",
        "F","]","]">>,
      \* {{name|upper}}[[IF !x]]q
      <<"{","{","n","a","m","e","|","u","p","p","e","r","}","}","[","[","I","F"," ","!",
        "x","]","]","q">>,
      \* a[[ELSE]]
      <<"a","[","[","E","L","S","E","]","]">>,
      \* [[IFX]]
      <<"[","[","I","F","X","]","]">> }

TwoCtxs == {ScenarioCtx(TRUE), ScenarioCtx(FALSE)}

TwoInit ==
    /\ pc = "render_docx"
    /\ raw \in TwoTemplates
    /\ ctx \in TwoCtxs
    /\ estricto \in BOOLEAN
    /\ tags = << >> /\ ti = 0
    /\ nodes = << >> /\ ifs = << >>
    /\ stack = << >> /\ cur = 0 /\ last_pos = 0
    /\ out = << >> /\ err = "" /\ doc = << >>
    /\ expr = << >> /\ res = VNone
    /\ other = NoFrame

\* the arguments, the locals and the outcome of the running call, as the
\* frame of call id
Frame(id) ==
    [id |-> id, pc |-> pc, raw |-> raw, ctx |-> ctx, estricto |-> estricto,
     tags |-> tags, ti |-> ti, nodes |-> nodes, ifs |-> ifs, stack |-> stack,
     cur |-> cur, last_pos |-> last_pos, out |-> out, err |-> err, doc |-> doc]

\* the frame of a call that has not started
FreshFrame(id, r, c, e) ==
    [id |-> id, pc |-> "render_docx", raw |-> r, ctx |-> c, estricto |-> e,
     tags |-> << >>, ti |-> 0, nodes |-> << >>, ifs |-> << >>, stack |-> << >>,
     cur |-> 0, last_pos |-> 0, out |-> << >>, err |-> "", doc |-> << >>]

\* the outcome of the finished call: the text returned or the exception raised
Returned(text) == VStr(text)

Raised(msg) == [VNone EXCEPT !.t = "raise", !.s = <<msg>>]

\* render A has finished alone; its outcome is kept in res and A is called
\* again with the same template and context while B is called with its own.
\* What the first call left in memory (tags, tree, stack, out) stays there.
SecondRender ==
    /\ pc \in {"done", "failed"} /\ other = NoFrame /\ res = VNone
    /\ res' = IF pc = "done" THEN Returned(out) ELSE Raised(err)
    /\ pc' = "render_docx" /\ err' = "" /\ doc' = << >>
    /\ \E r \in TwoTemplates : \E c \in TwoCtxs : \E e \in BOOLEAN :
          other' = FreshFrame("B", r, c, e)
    /\ UNCHANGED <<raw, ctx, estricto, tags, ti, nodes, ifs, stack, cur, last_pos, out, expr>>

\* the running call is suspended where it is and the other one goes on
Switch ==
    /\ other # NoFrame
    /\ other' = Frame(IF other.id = "B" THEN "A" ELSE "B")
    /\ pc' = other.pc /\ raw' = other.raw /\ ctx' = other.ctx /\ estricto' = other.estricto
    /\ tags' = other.tags /\ ti' = other.ti /\ nodes' = other.nodes /\ ifs' = other.ifs
    /\ stack' = other.stack /\ cur' = other.cur /\ last_pos' = other.last_pos
    /\ out' = other.out /\ err' = other.err /\ doc' = other.doc
    /\ UNCHANGED <<expr, res>>

SpecTwo == TwoInit /\ [][Next \/ SecondRender \/ Switch]_vars

\* the frame of render A while the two renders run
FrameA == IF other.id = "B" THEN Frame("A") ELSE other

FrameB == IF other.id = "B" THEN other ELSE Frame("B")

\* C21: whatever the interleaving with render B, the second render A ends as
\* the first one, which ran alone, did: it returns the same text or raises
\* the same error; and no step of a render writes to its template or context
C21_RendersAreIndependent ==
    /\ [](other # NoFrame =>
            /\ FrameA.pc = "done" => res = Returned(FrameA.out)
            /\ FrameA.pc = "failed" => res = Raised(FrameA.err))
    /\ [][other' = other => (ctx' = ctx /\ raw' = raw)]_vars

\* both renders have returned, B before A, each the text of its own template
\* and context
C21_Witness ==
    /\ other # NoFrame /\ other.id = "B" /\ other.pc = "done" /\ pc = "done"
    /\ res = Returned(out) /\ out = <<"a","n","a">>
    /\ other.raw # raw /\ other.ctx # ctx /\ other.out = <<"A","N","A","q">>

-----------------------------------------------------------------------------
(* Negation in _eval_condition *)

\* the expression, trimmed, starts with "!"
Negated == Strip(expr) # << >> /\ Head(Strip(expr)) = "!"

\* what follows the "!", trimmed
AfterBang == Strip(Tail(Strip(expr)))

\* the value of the context at the key AfterBang: the contexts have the keys
\* x and a, and a has the key b
NegatedValue ==
    IF AfterBang = <<"x">> THEN X
    ELSE IF AfterBang = <<"a",".","b">> THEN DictGet(DictGet(ctx, <<"a">>), <<"b">>)
    ELSE VNone

\* C22: an expression that starts with "!" is the negated truthiness of the
\* lookup of all that follows the "!", also when an == or != follows; so the
\* negation of a path that is absent, and of a remainder that is no key, is true
C22_NegationFirst ==
    (pc = "returned" /\ Negated) =>
        /\ res = VBool(~Truth(NegatedValue, IsPaddedFalseWord))
        /\ AfterBang \notin { <<"x">>, <<"a",".","b">> } => res = VBool(TRUE)

\* " !x == 1" was found true in a context where x is 1
C22_Witness ==
    /\ pc = "returned" /\ expr = <<" ","!","x"," ","=","="," ","1">>
    /\ X = VInt(1) /\ res = VBool(TRUE)


\* ---------------------------------------------------------------------
\* Clauses whose condition is malformed or whose evaluation raises
\* (_eval_ast lines 270-277, _eval_condition lines 176-178)
\* ---------------------------------------------------------------------

\* p[[IF bad]]b[[ELIF y]]c[[ELSE]]d[[/IF]]e
Skipping(bad) ==
    <<"p","[","[","I","F"," ">> \o bad \o <<"]","]","b">> \o TagText("ELIF", 2) \o <<"c">>
        \o TagText("ELSE", 3) \o <<"d">> \o TagText("/IF", 4) \o <<"e">>

\* conditions that match none of the three forms and name no key
MalformedTemplates ==
    { Skipping(<<"x"," ","=","=">>),
      Skipping(<<"=","="," ","1">>),
      Skipping(<<"a",".",".","b">>),
      Skipping(<<"x"," ","y">>),
      Skipping(<<"x"," ","="," ","1">>),
      Skipping(<<"x"," ","=","="," ","1"," ","=","="," ","1">>) }

\* every conditioned clause but the third looks up an undotted key
RaisingTemplate ==
    <<"p","[","[","I","F"," ","!","x","]","]","b","[","[","E","L","I","F"," ","x",
          " ","!","="," ","1","]","]","c","[","[","E","L","I","F"," ","!","a",".","b",
          "]","]","d","[","[","E","L","S","E","]","]","f","[","[","/","I","F","]","]",
          "e">>

\* a placeholder with an undotted key in the branch chosen for None
LookupPlain ==
    <<"[","[","I","F"," ","x","]","]","a","[","[","E","L","S","E","]","]","{","{",
          "x","}","}","[","[","/","I","F","]","]">>

\* the same with a dotted key
LookupDotted ==
    <<"[","[","I","F"," ","x","]","]","a","[","[","E","L","S","E","]","]","{","{",
          "a",".","b","}","}","[","[","/","I","F","]","]","k">>

\* the condition does not raise for None, the placeholder of the branch it
\* leaves out would
LookupUnchosen ==
    <<"[","[","I","F"," ","!","a",".","b","]","]","k","[","[","E","L","S","E","]",
          "]","{","{","x","}","}","[","[","/","I","F","]","]">>

\* w holds placeholder syntax in the first context
LookupOnce ==
    <<"[","[","I","F"," ","y","]","]","{","{","w","}","}","[","[","E","L","S","E",
          "]","]","{","{","x","}","}","[","[","/","I","F","]","]","{","{","x","}","}">>

LookupTemplates == {LookupPlain, LookupDotted, LookupUnchosen, LookupOnce}

RaiseTemplates == MalformedTemplates \cup {RaisingTemplate} \cup LookupTemplates

\* render_text(raw, ctx) with a ctx that is a dict, and with None
WithW ==
    VDict(<<Entry(<<"y">>, VBool(TRUE)), Entry(<<"x">>, VInt(1)), Entry(<<"w">>, VStr(Ph(<<"x">>)))>>)

RaiseCtxs ==
    { WithW,
      VDict(<<Entry(<<"y">>, VBool(FALSE))>>),
      VDict(<< >>),
      VNone }

RaiseInit ==
    /\ pc = "render_docx"
    /\ raw \in RaiseTemplates
    /\ ctx \in RaiseCtxs
    /\ estricto \in BOOLEAN
    /\ tags = << >> /\ ti = 0
    /\ nodes = << >> /\ ifs = << >>
    /\ stack = << >> /\ cur = 0 /\ last_pos = 0
    /\ out = << >> /\ err = "" /\ doc = << >>
    /\ expr = << >> /\ res = VNone
    /\ other = NoFrame

SpecRaise == RaiseInit /\ [][Next]_vars

\* the value of key y where the context has one
YIsTrue == ctx.t = "dict" /\ DictGet(ctx, <<"y">>) = VBool(TRUE)

\* C23: a clause whose condition is malformed counts as false, and a clause
\* whose evaluation raises is passed over as if false: the evaluator goes on
\* to the next clause (the ELIF y, then the ELSE) and the conditional stage
\* ends without a failure; the only failure of these renders is the lookup
\* of a placeholder in the substitution stage
C23_BadClauseIsFalse ==
    /\ (pc = "render_variables" /\ raw \in MalformedTemplates) =>
            out = IF YIsTrue THEN <<"p","c","e">> ELSE <<"p","d","e">>
    /\ (pc = "render_variables" /\ raw = RaisingTemplate /\ ctx = VNone) =>
            out = <<"p","d","e">>
    /\ (pc = "failed" /\ ~(estricto /\ err \in {ErrTags, ErrVars})) =>
            /\ err = ErrNoGet /\ ctx = VNone
            /\ raw \in {LookupPlain, LookupOnce}

C23_Witness ==
    /\ pc = "done" /\ raw = RaisingTemplate /\ ctx = VNone
    /\ out = <<"p","d","e">>


\* ---------------------------------------------------------------------
\* _parse_literal as a function: one call on a token (lines 126-143)
\* ---------------------------------------------------------------------

LitCores ==
    { <<"t","r","u","e">>,
      <<"T","r","u","e">>,
      <<"T","R","U","E">>,
      <<"t","R","u","E">>,
      <<"f","a","l","s","e">>,
      <<"F","a","l","s","e">>,
      <<"F","A","L","S","E">>,
      <<"n","u","l","l">>,
      <<"N","U","L","L">>,
      <<"N","u","l","l">>,
      <<"n","o","n","e">>,
      <<"N","o","n","e">>,
      <<"N","O","N","E">>,
      <<"'","t","r","u","e","'">>,
      <<"\"","t","r","u","e","\"">>,
      <<"'","F","a","l","s","e","'">>,
      <<"'","n","u","l","l","'">>,
      <<"'","1","'">>,
      <<"\"","1",".","5","\"">>,
      <<"'","'">>,
      <<"\"","\"">>,
      <<"'">>,
      <<"\"">>,
      <<"'","a","\"">>,
      <<"\"","a","'">>,
      <<"'","a","'","b","'">>,
      <<"'"," ","a"," ","'">>,
      <<"1">>,
      <<"0">>,
      <<"3">>,
      <<"-","1">>,
      <<"+","1">>,
      <<"0","0","7">>,
      <<"-","0">>,
      <<"1",".","0">>,
      <<"1",".","5">>,
      <<".","5">>,
      <<"1",".">>,
      <<"-","1",".","5","0">>,
      <<"+",".","5">>,
      <<".">>,
      <<"1",".","2",".","3">>,
      <<"1","a">>,
      <<"a","b","c">>,
      <<"-">>,
      <<>>,
      <<"t","r","u","e","x">>,
      <<"n","u","l">>,
      <<"1"," ","0">>,
      <<"t","r"," ","u","e">>,
      <<"a",".","b">>,
      <<"1",",","5">>,
      <<"-","-","1">> }

LitPads == { << >>, <<" ">>, <<"\t">> }

LitInputs == {l \o t \o r : l \in LitPads, t \in LitCores, r \in LitPads}

LitInit ==
    /\ pc = "_parse_literal"
    /\ expr \in LitInputs
    /\ res = VNone
    /\ ctx = VNone
    /\ raw = << >> /\ out = << >>
    /\ Idle

ParseLiteral ==
    /\ pc = "_parse_literal"
    /\ res' = _parse_literal(expr)
    /\ pc' = "returned"
    /\ UNCHANGED <<raw, ctx, estricto, tags, ti, nodes, ifs, stack, cur, last_pos, out, err, doc, expr, other>>

SpecLit == LitInit /\ [][ParseLiteral]_vars


\* the trimmed token and its lowercase form
Token == Strip(expr)

TokenLower == StrLower(Token)

\* the token is enclosed in a pair of matching quotes
Enclosed(t) == Len(t) >= 2 /\ t[1] = t[Len(t)] /\ t[1] \in {"'", "\""}

\* optional sign and digits
IsInteger(t) == Unsigned(t) # << >> /\ AllDigits(Unsigned(t))

\* optional sign, digits with one decimal point among them
IsDecimal(t) ==
    LET u == Unsigned(t)
    IN  /\ Cardinality({i \in 1..Len(u) : u[i] = "."}) = 1
        /\ \A i \in 1..Len(u) : u[i] = "." \/ IsDigit(u[i])
        /\ \E i \in 1..Len(u) : IsDigit(u[i])

\* C24: the literal parser classifies the trimmed token in this order:
\* true/false in any case is a boolean, null/none in any case is null, a
\* token enclosed in matching quotes is the string between the quotes (which
\* equals no boolean), an integer is an int, a number with a decimal point is
\* a float, and any other token is the raw string
C24_LiteralOrder ==
    pc = "returned" =>
        IF TokenLower = <<"t","r","u","e">> THEN res = VBool(TRUE)
        ELSE IF TokenLower = <<"f","a","l","s","e">> THEN res = VBool(FALSE)
        ELSE IF TokenLower \in { <<"n","u","l","l">>, <<"n","o","n","e">> } THEN res = VNone
        ELSE IF Enclosed(Token)
             THEN /\ res = VStr(Slice(Token, 2, Len(Token) - 1))
                  /\ \A b \in BOOLEAN : ~PyEq(VBool(b), res)
        ELSE IF IsInteger(Token) THEN res.t = "int"
        ELSE IF IsDecimal(Token) THEN res.t = "float"
        ELSE res = VStr(Token)


\* ---------------------------------------------------------------------
\* Order of the stages of one render (render_text lines 346-358)
\* ---------------------------------------------------------------------

\* the stages after the substitution
AfterSubstitution == pc \in {"_clean_text", "strict", "text_to_doc", "done"}

\* a step stays in the parser's loop, moves to the next stage, or fails in
\* one of the three stages that can raise
StageStep ==
    \/ pc = "_parse_to_ast" /\ pc' = pc
    \/ pc \notin {"done", "failed"} /\ pc' = NextPc(pc)
    \/ pc \in {"_parse_to_ast", "render_variables", "strict"} /\ pc' = "failed"

\* C25: the stages of a render run once each, in the order parse, evaluate
\* conditionals, substitute, normalize, strict check; the conditionals are
\* resolved with every placeholder still in place, the placeholder of a branch
\* that is not chosen is never looked up (its lookup would raise) and gives
\* no text, and an emitted placeholder is replaced by its value once, the
\* value {{x}} of w being left as it is
C25_StagesInOrder ==
    /\ [][StageStep]_vars
    /\ []((raw = LookupUnchosen /\ ctx = VNone) =>
            /\ pc # "failed"
            /\ (pc = "render_variables" \/ AfterSubstitution) => out = <<"k">>)
    /\ []((raw = LookupOnce /\ ctx = WithW) =>
            /\ pc = "render_variables" => out = Ph(<<"w">>) \o Ph(<<"x">>)
            /\ AfterSubstitution => out = Ph(<<"x">>) \o <<"1">>)

C25_Witness ==
    /\ pc = "done" /\ raw = LookupUnchosen /\ ctx = VNone
    /\ out = <<"k">> /\ doc = << <<"k">> >>


\* ---------------------------------------------------------------------
\* Position of the ELSE among the clauses (_eval_ast lines 265-279)
\* ---------------------------------------------------------------------

\* C26: wherever the ELSE stands among the clauses, its body is emitted only
\* when no conditioned clause of the same conditional is true, conditioned
\* clauses declared after it included; and when none is true a conditional
\* with an ELSE emits an ELSE body
C26_ElseOnlyWhenNoneTrue ==
    Evaluated =>
        \A f \in IfIds :
            /\ \A i \in Elses(f) : Emitted(f, i) => FirstTrue(f) = 0
            /\ (f \in TopIfs /\ Elses(f) # {} /\ FirstTrue(f) = 0) =>
                    \E i \in Elses(f) : Emitted(f, i)

\* an ELSE followed by a conditioned clause was emitted, no condition being true
C26_Witness ==
    /\ Evaluated
    /\ \E f \in TopIfs : \E i \in Elses(f) :
          /\ \E j \in Clauses(f) : j > i /\ ~ifs[f][j].none
          /\ FirstTrue(f) = 0 /\ Emitted(f, i)


\* ---------------------------------------------------------------------
\* The text held by the tree (_parse_to_ast lines 203-252)
\* ---------------------------------------------------------------------

RECURSIVE AllText(_, _, _)
\* the text fragments below node sequence id, depth first in declaration
\* order, every clause of every conditional included
AllText(ns, fs, id) ==
    Join([k \in 1..Len(ns[id]) |->
            IF ns[id][k].ref = 0 THEN ns[id][k].str
            ELSE Join([i \in 1..Len(fs[ns[id][k].ref]) |->
                        AllText(ns, fs, fs[ns[id][k].ref][i].node)])])

\* the 1-based position i of the template lies inside one of the first k tags
InTag(i, k) == \E j \in 1..k : tags[j].start < i /\ i <= tags[j].end

RECURSIVE Untagged(_, _)
\* the first n characters of the template without those of the first k tags
Untagged(n, k) ==
    IF n = 0 THEN << >>
    ELSE IF InTag(n, k) THEN Untagged(n - 1, k)
    ELSE Append(Untagged(n - 1, k), raw[n])

\* C27: while the template is parsed the text fragments of the tree, depth
\* first in declaration order, are the template read so far with the tags
\* removed, and once parsing has ended without error they are the whole
\* template with every recognized tag removed, the text inside conditionals
\* left open at the end included
C27_TreeHoldsText ==
    /\ (pc = "_parse_to_ast" /\ nodes # << >>) =>
            AllText(nodes, ifs, Root) = Untagged(last_pos, ti)
    /\ pc = "_eval_ast" => AllText(nodes, ifs, Root) = Untagged(Len(raw), Len(tags))

\* parsing ended inside two open conditionals, each holding text
C27_Witness ==
    /\ pc = "_eval_ast" /\ Len(stack) = 5
    /\ raw = ShapeTemplate(<<"IF", "IF">>)
    /\ AllText(nodes, ifs, Root) = <<"a", "b", "c">>


\* ---------------------------------------------------------------------
\* Shape of the parser's stack (_parse_to_ast lines 197-247)
\* ---------------------------------------------------------------------

\* the number of conditionals open after the tags processed so far
Depth == OpenAfter(ti)

\* the body of the last clause of the conditional on top of the stack
LastBody == ifs[Top(stack).id][Len(ifs[Top(stack).id])].node

\* C28: after every tag the parser has processed, the stack has length
\* 1 + 2d for d the IF tags minus the /IF tags seen, its bottom is the root,
\* above it come d pairs of an enclosing node and an open conditional, the
\* insertion target is the root when d = 0 and else the body of the last
\* clause of the conditional on top, and every conditional of the tree has a
\* first clause, which carries a condition
C28_StackShape ==
    pc \in {"_parse_to_ast", "_eval_ast"} =>
        /\ Depth >= 0
        /\ Len(stack) = 1 + 2 * Depth
        /\ stack[1] = NodeRef(Root)
        /\ \A k \in 1..Depth : ~stack[2 * k].isIf /\ stack[2 * k + 1].isIf
        /\ cur = IF Depth = 0 THEN Root ELSE LastBody
        /\ \A f \in IfIds : Len(ifs[f]) >= 1 /\ ~ifs[f][1].none

\* an inner conditional was closed inside an outer one that is still open and
\* has had a second clause
C28_Witness ==
    /\ pc = "_parse_to_ast" /\ ti = 4 /\ Depth = 1
    /\ Len(stack) = 3 /\ Len(ifs) = 2 /\ Len(ifs[1]) = 2
    /\ cur = ifs[1][2].node


\* ---------------------------------------------------------------------
\* Bracketed tokens the parser does not recognize (_TAG_RE line 184,
\* _RE_TAG_LEFT line 338)
\* ---------------------------------------------------------------------

\* [[IFX]]
TokenIFX == <<"[","[","I","F","X","]","]">>

\* [[ELSEWHERE]]
TokenELSEWHERE == <<"[","[","E","L","S","E","W","H","E","R","E","]","]">>

\* s ends with the text t
EndsWithText(s, t) == Len(s) >= Len(t) /\ SubSeq(s, Len(s) - Len(t) + 1, Len(s)) = t

\* C29: [[IFX]] and [[ELSEWHERE]] are no tags for the parser: no match, no
\* conditional opened or closed, no parse error, and the token is in the text
\* of every later stage as written; the strict validator does take them for
\* tags, so the strict render fails and its message names the tags category,
\* while the non-strict render returns the token
C29_UnrecognizedTokenFailsStrict ==
    \A t \in {TokenIFX, TokenELSEWHERE} :
        (EndsWithText(raw, t) /\ pc # "render_docx") =>
            /\ tags = << >> /\ ifs = << >> /\ stack = <<NodeRef(Root)>>
            /\ pc \in {"render_variables", "_clean_text", "strict", "text_to_doc", "done"} =>
                    EndsWithText(out, t)
            /\ pc = "render_variables" => out = raw
            /\ estricto => pc \notin {"text_to_doc", "done"}
            /\ pc = "failed" => (estricto /\ err \in {ErrTags, ErrBoth})
            /\ (pc = "failed" /\ raw = t) => err = ErrTags

\* the strict render of [[IFX]] failed on the token the parser left in the text
C29_Witness ==
    /\ pc = "failed" /\ estricto /\ raw = TokenIFX
    /\ tags = << >> /\ out = TokenIFX /\ err = ErrTags


\* ---------------------------------------------------------------------
\* The placeholder patterns of the substitution and of the strict check
\* (_VAR_RE line 299, _RE_VAR_LEFT line 337)
\* ---------------------------------------------------------------------

\* the text the substitution gets: the conditionals of the template resolved
BeforeSubstitution == _eval_ast(nodes, ifs, Root, ctx)

\* the matches of _VAR_RE in s, by position
VarMatches(s) == {p \in 1..Len(s) : _VAR_RE(s, p).ok}

\* a value substituted into the text holds a brace
ValueBringsBraces ==
    \E p \in VarMatches(BeforeSubstitution) :
        LET v == Repl(_VAR_RE(BeforeSubstitution, p), ctx)
        IN  Contains(v, "{") \/ Contains(v, "}")

\* the text left when every placeholder is taken out holds a placeholder
ClosesUp == HasPlaceholder(render_variables(BeforeSubstitution, VDict(<< >>)))

\* no placeholder of the template has a value in the context
AllMissing == \A p \in VarMatches(raw) : _get_ctx_value(ctx, _VAR_RE(raw, p).key) = VNone

\* the strict render failed and its message names the placeholders category
PlaceholdersReported == pc = "failed" /\ estricto /\ err \in {ErrVars, ErrBoth}

\* the two patterns find a placeholder in the same texts
SamePlaceholders == pc = "render_variables" => (_RE_VAR_LEFT(out) <=> VarMatches(out) # {})

====
